---- MODULE Spec2Model ----
(***************************************************************************)
(* Model of parseTrainingPlan (Carvtrainer/frontend/src/App.jsx), the      *)
(* markdown-into-structured-sections parser of the CARV trainer frontend.  *)
(*                                                                         *)
(* A JavaScript string is modelled as the sequence of its characters (each *)
(* a one-character TLA+ string), so that split, join, trim, replace,       *)
(* startsWith, includes, toLowerCase and the regular expressions of the    *)
(* source are computed, character by character, as the source computes     *)
(* them.  The parser runs as a state machine: one step per iteration of    *)
(* the line loop and one step per iteration of the forEach over the keys   *)
(* of rawSections.                                                         *)
(*                                                                         *)
(* The App component is modelled beside it: its state hooks, the entry     *)
(* stored under 'carv_progress_logs', the clock that Date.now() reads, the *)
(* file readers and the HTTP calls in flight, and one action per handler   *)
(* and per continuation of an asynchronous handler.                        *)
(***************************************************************************)
EXTENDS Integers, Sequences, FiniteSets, TLC

VARIABLES text, pc, lines, i, currentSection, currentContent, sections,
          keys, k, result,
          analysis, sessionNotes, showSaveDialog, progressLogs,
          selectedLogForComparison, storage, now,
          selectedFiles, readers, error, trainingPlan, loading, planLoading,
          sessionDateTime, showProgressPanel, requests, files,
          score, scoreColor

\* the locals and the result of a parseTrainingPlan call
parserVars == <<text, pc, lines, i, currentSection, currentContent, sections,
                keys, k, result>>

\* the state hooks of the progress log, localStorage, the clock
logVars == <<sessionNotes, showSaveDialog, progressLogs,
             selectedLogForComparison, storage, now>>

\* the state hooks of the upload and of the two requests, the file readers
\* that have not finished, the HTTP calls that have not settled, the argument
\* of the latest processFiles call
sessionVars == <<selectedFiles, readers, error, trainingPlan, loading,
                 planLoading, sessionDateTime, showProgressPanel, requests,
                 files>>

\* the argument and the value of a getScoreColor call
scoreVars == <<score, scoreColor>>

\* the state of App
appVars == <<analysis, logVars, sessionVars, scoreVars>>

vars == <<text, pc, lines, i, currentSection, currentContent, sections,
          keys, k, result,
          analysis, sessionNotes, showSaveDialog, progressLogs,
          selectedLogForComparison, storage, now,
          selectedFiles, readers, error, trainingPlan, loading, planLoading,
          sessionDateTime, showProgressPanel, requests, files,
          score, scoreColor>>

-----------------------------------------------------------------------------
(* Bounds of the inputs.                                                   *)

\* longest document of the line-scan specification, in lines
MaxLines == 4
\* longest section body of the one-section specifications, in lines
MaxBody == 4
\* latest value of the clock, in milliseconds
MaxClock == 2
\* longest progress log
MaxLogs == 2
\* largest score passed to getScoreColor, and the opposite of the smallest
MaxScore == 100
\* most files in one drop or one selection
MaxBatch == 2
\* most files selected or being read
MaxFiles == 2
\* number of values Math.random() takes
MaxRandom == 1
\* most HTTP calls in flight
MaxRequests == 2

-----------------------------------------------------------------------------
(* JavaScript strings as character sequences.                              *)

S(s) == [n \in 1..Len(s) |-> SubSeq(s, n, n)]

Min(A) == CHOOSE x \in A : \A y \in A : x <= y

Max(A) == CHOOSE x \in A : \A y \in A : y <= x

\* the decimal numeral of a natural number, as a template literal writes it
DigitOf(d) ==
  CASE d = 0 -> "0" [] d = 1 -> "1" [] d = 2 -> "2" [] d = 3 -> "3" [] d = 4 -> "4"
    [] d = 5 -> "5" [] d = 6 -> "6" [] d = 7 -> "7" [] d = 8 -> "8" [] d = 9 -> "9"

RECURSIVE Decimal(_)
Decimal(n) ==
  IF n < 10 THEN <<DigitOf(n)>> ELSE Decimal(n \div 10) \o <<DigitOf(n % 10)>>

NL == "\n"

WhiteSpace == {" ", NL, "\t", "\r"}

Digits == {"0", "1", "2", "3", "4", "5", "6", "7", "8", "9"}

UpperCase == S("ABCDEFGHIJKLMNOPQRSTUVWXYZ")

LowerCase == S("abcdefghijklmnopqrstuvwxyz")

LowerChar(c) ==
  IF \E n \in 1..Len(UpperCase) : UpperCase[n] = c
  THEN LowerCase[CHOOSE n \in 1..Len(UpperCase) : UpperCase[n] = c]
  ELSE c

\* String.prototype.toLowerCase
ToLowerCase(s) == [n \in 1..Len(s) |-> LowerChar(s[n])]

\* s.substring(from - 1) with 1-based from
From(s, from) == SubSeq(s, from, Len(s))

\* String.prototype.startsWith
StartsWith(s, p) == Len(p) <= Len(s) /\ SubSeq(s, 1, Len(p)) = p

\* 1-based s.indexOf(p, from - 1) + 1: 0 when p does not occur
IndexOfFrom(s, p, from) ==
  LET at == {j \in from..(Len(s) - Len(p) + 1) : SubSeq(s, j, j + Len(p) - 1) = p}
  IN  IF at = {} THEN 0 ELSE Min(at)

IndexOf(s, p) == IndexOfFrom(s, p, 1)

\* String.prototype.includes
Includes(s, p) == IndexOf(s, p) # 0

\* first position >= from whose character is not in class (Len(s) + 1 if none)
SkipWhile(s, from, class) ==
  LET stop == {j \in from..Len(s) : s[j] \notin class}
  IN  IF stop = {} THEN Len(s) + 1 ELSE Min(stop)

\* String.prototype.trim
Trim(s) ==
  LET keep == {j \in 1..Len(s) : s[j] \notin WhiteSpace}
  IN  IF keep = {} THEN << >>
      ELSE SubSeq(s, Min(keep), CHOOSE x \in keep : \A y \in keep : y <= x)

RECURSIVE SplitFrom(_, _, _)
SplitFrom(s, sep, from) ==
  LET j == IndexOfFrom(s, sep, from)
  IN  IF j = 0 THEN << From(s, from) >>
      ELSE << SubSeq(s, from, j - 1) >> \o SplitFrom(s, sep, j + Len(sep))

\* String.prototype.split with a string separator
Split(s, sep) == SplitFrom(s, sep, 1)

RECURSIVE Join(_, _)
\* Array.prototype.join
Join(parts, sep) ==
  IF parts = << >> THEN << >>
  ELSE IF Len(parts) = 1 THEN parts[1]
  ELSE parts[1] \o sep \o Join(Tail(parts), sep)

\* s.replace(p, r) with a string pattern: the first occurrence only
ReplaceFirst(s, p, r) ==
  LET j == IndexOf(s, p)
  IN  IF j = 0 THEN s ELSE SubSeq(s, 1, j - 1) \o r \o From(s, j + Len(p))

\* Array.prototype.filter
Filter(seq, Keep(_)) ==
  LET kept == {n \in 1..Len(seq) : Keep(seq[n])}
      Nth(r) == CHOOSE n \in kept : Cardinality({m \in kept : m <= n}) = r
  IN  [r \in 1..Cardinality(kept) |-> seq[Nth(r)]]

-----------------------------------------------------------------------------
(* Regular expressions.  A matcher M(s, p) gives the position just after   *)
(* the match of the expression that starts at position p, 0 if there is    *)
(* none.                                                                   *)

\* case-insensitive literal (lit in lower case) at position p
LitI(s, p, lit) ==
  /\ p + Len(lit) - 1 <= Len(s)
  /\ ToLowerCase(SubSeq(s, p, p + Len(lit) - 1)) = lit

\* the matches of a /g expression, left to right, as <<start, end>> pairs:
\* each search starts where the previous match ended
AllMatches(s, M(_, _)) ==
  LET starts == {p \in 1..Len(s) : M(s, p) > 0}
      g[p \in 1..(Len(s) + 1)] ==
        LET at == {q \in starts : q >= p}
        IN  IF at = {} THEN << >>
            ELSE << <<Min(at), M(s, Min(at))>> >> \o g[M(s, Min(at))]
  IN  g[1]

\* String.prototype.split with a regular expression without groups
SplitRe(s, M(_, _)) ==
  LET ms == AllMatches(s, M)
      StartOf(n) == IF n = 1 THEN 1 ELSE ms[n - 1][2]
      EndOf(n) == IF n = Len(ms) + 1 THEN Len(s) ELSE ms[n][1] - 1
  IN  [n \in 1..(Len(ms) + 1) |-> SubSeq(s, StartOf(n), EndOf(n))]

\* /^-\s*/
StripDash(s) ==
  IF s # << >> /\ s[1] = "-" THEN From(s, SkipWhile(s, 2, WhiteSpace)) ELSE s

\* the characters U+2192 (rightwards arrow) and U+2013 (en dash) of the source
Arrow == "U+2192"

EnDash == "U+2013"

\* first position >= from whose character is in stop (Len(s) + 1 if none)
SkipUntil(s, from, stop) ==
  LET at == {j \in from..Len(s) : s[j] \in stop}
  IN  IF at = {} THEN Len(s) + 1 ELSE Min(at)

\* s.replace(/re/g, rep) for an expression without groups
ReplaceAllRe(s, M(_, _), rep) == Join(SplitRe(s, M), rep)

\* the start of the first match of an expression in s, 0 if there is none
FirstMatchAt(s, M(_, _)) ==
  LET at == {p \in 1..Len(s) : M(s, p) > 0}
  IN  IF at = {} THEN 0 ELSE Min(at)

\* /\*\*/
MStars(s, p) == IF p + 1 <= Len(s) /\ SubSeq(s, p, p + 1) = S("**") THEN p + 2 ELSE 0

\* s.replace(/\*\*/g, '')
StripStars(s) == ReplaceAllRe(s, MStars, << >>)

\* /###\s*<word>\s*\d+/i
MSubHeader(s, p, word) ==
  IF p + 2 <= Len(s) /\ SubSeq(s, p, p + 2) = S("###")
  THEN LET a == SkipWhile(s, p + 3, WhiteSpace)
       IN  IF LitI(s, a, word)
           THEN LET b == SkipWhile(s, a + Len(word), WhiteSpace)
                    c == SkipWhile(s, b, Digits)
                IN  IF c > b THEN c ELSE 0
           ELSE 0
  ELSE 0

\* /^\*\*.*?\*\*:?\s*/ replaced by ''
StripBoldLabel(s) ==
  IF StartsWith(s, S("**")) /\ IndexOfFrom(s, S("**"), 3) # 0
  THEN LET e == IndexOfFrom(s, S("**"), 3) + 2
           f == IF e <= Len(s) /\ s[e] = ":" THEN e + 1 ELSE e
       IN  From(s, SkipWhile(s, f, WhiteSpace))
  ELSE s

\* l => l.replace(/^-\s*/, '').replace(/^\*\*.*?\*\*:?\s*/, '').trim()
DetailText(l) == Trim(StripBoldLabel(StripDash(l)))

\* s with every character of class removed: s.replace(/[class]/g, '')
RemoveChars(s, class) ==
  LET Keep(c) == c \notin class
  IN  Filter(s, Keep)

\* s with every character of class replaced by a space
BlankChars(s, class) == [n \in 1..Len(s) |-> IF s[n] \in class THEN " " ELSE s[n]]

-----------------------------------------------------------------------------
(* The object rawSections: its own string-keyed properties in insertion    *)
(* order.                                                                  *)

HasKey(obj, key) == \E n \in 1..Len(obj) : obj[n].key = key

\* an assignment that does not overwrite a key that exists
ObjSet_KeepFirst(obj, key, value) ==
  IF key = S("__proto__") \/ HasKey(obj, key) THEN obj
  ELSE Append(obj, [key |-> key, value |-> value])

\* obj[key] = value, value a string: on a plain object the assignment to
\* __proto__ runs the inherited setter, which ignores a string and creates no
\* own property
ObjSet(obj, key, value) ==
  IF key = S("__proto__") THEN obj
  ELSE IF HasKey(obj, key)
  THEN [n \in 1..Len(obj) |->
          IF obj[n].key = key THEN [key |-> key, value |-> value] ELSE obj[n]]
  ELSE Append(obj, [key |-> key, value |-> value])

\* obj[key]
ObjGet(obj, key) == obj[CHOOSE n \in 1..Len(obj) : obj[n].key = key].value

\* Object.keys(obj).  The keys are given in insertion order.  JavaScript
\* lists integer-like keys (strings of digits) first; such a heading contains
\* no letter, matches no predicate of the forEach callback and so leaves every
\* typed field alone wherever it is visited.
ObjKeys(obj) == [n \in 1..Len(obj) |-> obj[n].key]

-----------------------------------------------------------------------------
(* parseTrainingPlan: the result record and the per-field extraction.      *)

Map(seq, F(_)) == [n \in 1..Len(seq) |-> F(seq[n])]

\* l => l.trim(), as a filter: the non-blank strings
NonBlank(l) == Trim(l) # << >>

\* the accumulator `sections` of parseTrainingPlan as constructed
DefaultSections ==
  [ title |-> << >>,
    bigPicture |-> << >>,
    immediateFocus |-> [drill |-> << >>, cue |-> << >>, details |-> << >>],
    drills |-> << >>,
    dailyPlan |-> << >>,
    weeklySchedule |-> << >>,
    weekPlan |-> << >>,
    strengths |-> << >>,
    progression |-> [week1_2 |-> << >>, week3_4 |-> << >>],
    sessionPlan |-> << >>,
    checkpoints |-> << >>,
    mentalCues |-> << >>,
    traps |-> << >>,
    rawSections |-> << >> ]

\* a bullet text without the final trim()
BulletText_Untrimmed(l) == StripDash(l)

\* l => l.replace(/^-\s*/, '').trim()
BulletText(l) == Trim(StripDash(l))

\* content.split('\n').filter(l => l.trim().startsWith('-'))
\*        .map(l => l.replace(/^-\s*/, '').trim())
Bullets(content) ==
  LET IsBullet(l) == StartsWith(Trim(l), <<"-">>)
  IN  Map(Filter(Split(content, <<NL>>), IsBullet), BulletText)

IsBigPicture(keyLower) ==
  Includes(keyLower, S("big picture"))

ParseBigPicture(old, keyLower, content) ==
  IF IsBigPicture(keyLower)
  THEN Bullets(content)
  ELSE old

\* l.includes('Mental cue') || l.includes('mental cue') || l.includes('Cue:')
IsCueLine(l) ==
  Includes(l, S("Mental cue")) \/ Includes(l, S("mental cue")) \/ Includes(l, S("Cue:"))

\* l.replace(/.*?[:"]\s*/, '').replace(/[""]/g, '').trim()
CueText(l) ==
  LET j == SkipUntil(l, 1, {":", "\""})
      rest == IF j > Len(l) THEN l ELSE From(l, SkipWhile(l, j + 1, WhiteSpace))
  IN  Trim(RemoveChars(rest, {"\""}))

IsImmediateFocus(keyLower) ==
  Includes(keyLower, S("immediate focus"))

ParseImmediateFocus(old, keyLower, content) ==
  IF IsImmediateFocus(keyLower)
  THEN LET ls == Filter(Split(content, <<NL>>), NonBlank)
           cues == Filter(ls, IsCueLine)
           Shown(l) == l # << >> /\ ~StartsWith(l, <<"#">>)
       IN  [old EXCEPT
              !.cue =
                 IF cues = << >> THEN @ ELSE CueText(cues[Len(cues)]),
              !.details = Filter(Map(ls, DetailText), Shown)]
  ELSE old

\* /###\s*Priority\s*\d+/i
MPriorityHeader(s, p) == MSubHeader(s, p, S("priority"))

\* /\[.*?\]/
MBracket(s, p) ==
  IF s[p] = "[" /\ SkipUntil(s, p + 1, {"]"}) <= Len(s)
  THEN SkipUntil(s, p + 1, {"]"}) + 1
  ELSE 0

\* line.match(/Current:\s*(\d+).*?<arrow>.*?(\d+)/i): << >> when there is no
\* match, else the two groups
CurrentMatch(line) ==
  LET Groups(p) ==
        IF LitI(line, p, S("current:"))
        THEN LET a == SkipWhile(line, p + 8, WhiteSpace)
                 b == SkipWhile(line, a, Digits)
                 r == SkipUntil(line, b, {Arrow})
                 d == SkipUntil(line, r + 1, Digits)
                 e == SkipWhile(line, d, Digits)
             IN  IF b > a /\ r <= Len(line) /\ d <= Len(line)
                 THEN << SubSeq(line, a, b - 1), SubSeq(line, d, e - 1) >>
                 ELSE << >>
        ELSE << >>
      at == {p \in 1..Len(line) : Groups(p) # << >>}
  IN  IF at = {} THEN << >> ELSE Groups(Min(at))

\* an assignment of the two groups the other way round
SetCurrent_Swapped(priority, m) ==
  IF m # << >> THEN [priority EXCEPT !.current = m[2], !.target = m[1]] ELSE priority

\* if (line.includes('Current:') && line.includes(<arrow>)) { ... }
SetCurrent(priority, m) ==
  IF m # << >> THEN [priority EXCEPT !.current = m[1], !.target = m[2]] ELSE priority

\* const [label, value] = line.split(':').map(s => s.trim()), and the three
\* conditionals on them
SetLabelled(priority, line, parts) ==
  [priority EXCEPT
     !.drill = IF Includes(ToLowerCase(parts[1]), S("drill"))
               THEN StripStars(parts[2]) ELSE @,
     !.terrain = IF Includes(ToLowerCase(parts[1]), S("terrain"))
                 THEN StripStars(parts[2]) ELSE @,
     !.name = IF @ = << >> /\ StartsWith(line, S("###"))
              THEN Trim(ReplaceAllRe(ReplaceFirst(line, S("###"), << >>), MBracket, << >>))
              ELSE @]

\* the callback of lines.forEach in a priority block
PriorityLine(priority, line) ==
  LET p1 == SetCurrent(priority,
                       IF Includes(line, S("Current:")) /\ Includes(line, <<Arrow>>)
                       THEN CurrentMatch(line) ELSE << >>)
      p2 == IF Includes(line, <<":">>)
            THEN SetLabelled(p1, line, Map(Split(line, <<":">>), Trim))
            ELSE p1
  IN  [p2 EXCEPT !.details = Append(@, DetailText(line))]

\* the callback of priorityBlocks.map
PriorityOfBlock(block) ==
  LET ls == Filter(Split(block, <<NL>>), NonBlank)
      f[n \in 0..Len(ls)] ==
        IF n = 0
        THEN [name |-> << >>, current |-> << >>, target |-> << >>,
              drill |-> << >>, terrain |-> << >>, details |-> << >>]
        ELSE PriorityLine(f[n - 1], ls[n])
  IN  \* if (!priority.name && lines[0]) priority.name = ...
      [f[Len(ls)] EXCEPT
         !.name = IF @ = << >> /\ ls # << >> /\ ls[1] # << >>
                  THEN Trim(RemoveChars(ls[1], {":", "[", "]", "#", "*"}))
                  ELSE @]

IsWeekPlan(keyLower) ==
  \/ Includes(keyLower, S("week's game plan"))
  \/ Includes(keyLower, S("week plan"))
  \/ Includes(keyLower, S("priorities"))

ParseWeekPlan(old, keyLower, content) ==
  IF IsWeekPlan(keyLower)
  THEN LET priorityBlocks == Filter(SplitRe(content, MPriorityHeader), NonBlank)
           Kept(q) == q.name # << >> \/ q.drill # << >>
       IN  Filter(Map(priorityBlocks, PriorityOfBlock), Kept)
  ELSE old

IsStrengths(keyLower) ==
  Includes(keyLower, S("building on strength"))

ParseStrengths(old, keyLower, content) ==
  IF IsStrengths(keyLower)
  THEN Bullets(content)
  ELSE old

\* line.replace(/^-\s*/, '').replace(/\*\*/g, '')
CleanLine(line) == StripStars(StripDash(line))

\* a label taken without toLowerCase()
LabelOf_CaseSensitive(cleanLine) == SubSeq(cleanLine, 1, IndexOf(cleanLine, <<":">>) - 1)

\* cleanLine.substring(0, colonIdx).toLowerCase()
LabelOf(cleanLine) == ToLowerCase(SubSeq(cleanLine, 1, IndexOf(cleanLine, <<":">>) - 1))

\* cleanLine.substring(colonIdx + 1).trim()
ValueOf(cleanLine) == Trim(From(cleanLine, IndexOf(cleanLine, <<":">>) + 1))

\* /Primary Focus|Secondary Focus|Integration|Refinement/i
MFocus(s, p) ==
  IF LitI(s, p, S("primary focus")) THEN p + 13
  ELSE IF LitI(s, p, S("secondary focus")) THEN p + 15
  ELSE IF LitI(s, p, S("integration")) THEN p + 11
  ELSE IF LitI(s, p, S("refinement")) THEN p + 10
  ELSE 0

\* /###\s*Drill\s*\d+/i
MDrillHeader(s, p) == MSubHeader(s, p, S("drill"))

\* a conditional that leaves a field alone once it is set
SetIf_KeepFirst(record, label, word, field, value) ==
  IF Includes(label, S(word)) /\ record[field] = << >>
  THEN [record EXCEPT ![field] = value] ELSE record

\* if (label.includes(word)) record[field] = value
SetIf(record, label, word, field, value) ==
  IF Includes(label, S(word)) THEN [record EXCEPT ![field] = value] ELSE record

\* the nine conditionals of a drill line that contains ':'
DrillLabelled(drill, label, value) ==
  SetIf(SetIf(SetIf(SetIf(SetIf(SetIf(SetIf(SetIf(SetIf(drill,
    label, "target metric", "targetMetric", value),
    label, "why this drill", "why", value),
    label, "execution", "execution", value),
    label, "runs per session", "runsPerSession", value),
    label, "turns per run", "turnsPerRun", value),
    label, "terrain", "terrain", value),
    label, "success feels", "successFeels", value),
    label, "common mistake", "commonMistake", value),
    label, "progression", "progression", value)

\* if (!drill.name && lines.indexOf(line) === 0) { ... }
DrillName(drill, line, cleanLine, first, at) ==
  IF drill.name = << >> /\ line = first
  THEN [drill EXCEPT
          !.name = Trim(ReplaceAllRe(BlankChars(cleanLine, {":", "-", EnDash}),
                                     MFocus, << >>)),
          !.focus = IF at # 0 THEN SubSeq(line, at, MFocus(line, at) - 1) ELSE @]
  ELSE drill

\* the callback of lines.forEach in a drill block (first is lines[0])
DrillLine(drill, line, first) ==
  DrillName(IF Includes(line, <<":">>)
            THEN DrillLabelled(drill, LabelOf(CleanLine(line)), ValueOf(CleanLine(line)))
            ELSE drill,
            line, CleanLine(line), first, FirstMatchAt(line, MFocus))

\* the callback of drillBlocks.map
DrillOfBlock(block) ==
  LET ls == Filter(Split(block, <<NL>>), NonBlank)
      f[n \in 0..Len(ls)] ==
        IF n = 0
        THEN [name |-> << >>, focus |-> << >>, targetMetric |-> << >>, why |-> << >>,
              execution |-> << >>, runsPerSession |-> << >>, turnsPerRun |-> << >>,
              terrain |-> << >>, successFeels |-> << >>, commonMistake |-> << >>,
              progression |-> << >>]
        ELSE DrillLine(f[n - 1], ls[n], ls[1])
  IN  f[Len(ls)]

IsDrills(keyLower) ==
  Includes(keyLower, S("3 key drills")) \/ Includes(keyLower, S("your 3 key drills"))

ParseDrills(old, keyLower, content) ==
  IF IsDrills(keyLower)
  THEN LET drillBlocks == Filter(SplitRe(content, MDrillHeader), NonBlank)
           Kept(d) == d.name # << >> \/ d.execution # << >>
       IN  Filter(Map(drillBlocks, DrillOfBlock), Kept)
  ELSE old

\* /Run\s*[\d-]+/i; RunDigits is the start of the group ([\d-]+)
RunDigits(s, p) == SkipWhile(s, p + 3, WhiteSpace)

MRun(s, p) ==
  IF LitI(s, p, S("run"))
  THEN LET c == SkipWhile(s, RunDigits(s, p), Digits \cup {"-"})
       IN  IF c > RunDigits(s, p) THEN c ELSE 0
  ELSE 0

\* /\*\*Run\s*[\d-]+/i
MRunSplit(s, p) ==
  IF p + 1 <= Len(s) /\ SubSeq(s, p, p + 1) = S("**") THEN MRun(s, p + 2) ELSE 0

\* /\*\*Run\s*[\d-]+[^*]*\*\*/i
MRunHeader(s, p) ==
  LET c == MRunSplit(s, p)
      d == SkipUntil(s, c, {"*"})
  IN  IF c > 0 /\ d + 1 <= Len(s) /\ s[d + 1] = "*" THEN d + 2 ELSE 0

\* runHeader.match(/Run\s*([\d-]+)/i): group 1, '' when there is no match
RunsOf(runHeader) ==
  LET at == FirstMatchAt(runHeader, MRun)
  IN  IF at = 0 THEN << >>
      ELSE SubSeq(runHeader, RunDigits(runHeader, at), MRun(runHeader, at) - 1)

\* runHeader.match(/:\s*([^*]+)/i): group 1 trimmed, '' when there is no match.
\* At a colon the group is the longest run without '*' after the white space;
\* when that run is empty the expression gives back one white-space character
\* to the group, and without white space it does not match at this colon.
PhaseOf(runHeader) ==
  LET Group(p) ==
        LET a == SkipWhile(runHeader, p + 1, WhiteSpace)
            d == SkipUntil(runHeader, a, {"*"})
        IN  IF d > a THEN SubSeq(runHeader, a, d - 1)
            ELSE IF a > p + 1 THEN << runHeader[a - 1] >>
            ELSE << >>
      at == {p \in 1..Len(runHeader) : runHeader[p] = ":" /\ Group(p) # << >>}
  IN  IF at = {} THEN << >> ELSE Trim(Group(Min(at)))

IsDailyPlan(keyLower) ==
  Includes(keyLower, S("daily session plan")) \/ Includes(keyLower, S("daily plan"))

ParseDailyPlan(old, keyLower, content) ==
  IF IsDailyPlan(keyLower)
  THEN LET runBlocks == Filter(SplitRe(content, MRunSplit), NonBlank)
           runMatches == AllMatches(content, MRunHeader)
           Entry(idx) ==
             LET runHeader == SubSeq(content, runMatches[idx][1], runMatches[idx][2] - 1)
                 \* runBlocks[idx + 1] of the source, idx counted from 0
                 blockContent == IF idx + 1 <= Len(runBlocks)
                                 THEN runBlocks[idx + 1] ELSE << >>
             IN  [runs |-> RunsOf(runHeader),
                  phase |-> PhaseOf(runHeader),
                  details |-> Bullets(blockContent)]
       IN  [idx \in 1..Len(runMatches) |-> Entry(idx)]
  ELSE old

\* /###\s*Day\s*\d+/i
MDayHeader(s, p) == MSubHeader(s, p, S("day"))

\* the five conditionals of a day line that contains ':'
DayLabelled(day, label, value) ==
  LET d == SetIf(SetIf(SetIf(SetIf(day,
             label, "primary focus", "primaryFocus", value),
             label, "secondary", "secondary", value),
             label, "terrain", "terrain", value),
             label, "goal", "goal", value)
  IN  [d EXCEPT !.details = IF Includes(label, S("add"))
                            THEN Append(@, S("Add: ") \o value) ELSE @]

\* if (!day.name && lines.indexOf(line) === 0) { ... }
DayName(day, line, cleanLine, first) ==
  IF day.name = << >> /\ line = first
  THEN [day EXCEPT !.name = Trim(BlankChars(cleanLine, {":", "-", EnDash}))]
  ELSE day

\* the callback of lines.forEach in a day block (first is lines[0])
DayLine(day, line, first) ==
  DayName(IF Includes(line, <<":">>)
          THEN DayLabelled(day, LabelOf(CleanLine(line)), ValueOf(CleanLine(line)))
          ELSE day,
          line, CleanLine(line), first)

\* the callback of dayBlocks.map, idx counted from 0
DayOfBlock(block, idx) ==
  LET ls == Filter(Split(block, <<NL>>), NonBlank)
      f[n \in 0..Len(ls)] ==
        IF n = 0
        THEN [dayNum |-> idx + 1, name |-> << >>, primaryFocus |-> << >>,
              secondary |-> << >>, terrain |-> << >>, goal |-> << >>,
              details |-> << >>]
        ELSE DayLine(f[n - 1], ls[n], ls[1])
  IN  f[Len(ls)]

IsWeeklySchedule(keyLower) ==
  \/ Includes(keyLower, S("weekly training schedule"))
  \/ Includes(keyLower, S("weekly schedule"))

\* a schedule whose days are numbered after the blocks without name and
\* primary focus are discarded
ParseWeeklySchedule_NumberKept(old, keyLower, content) ==
  IF IsWeeklySchedule(keyLower)
  THEN LET dayBlocks == Filter(SplitRe(content, MDayHeader), NonBlank)
           days == [n \in 1..Len(dayBlocks) |-> DayOfBlock(dayBlocks[n], n - 1)]
           Kept(d) == d.name # << >> \/ d.primaryFocus # << >>
           kept == Filter(days, Kept)
       IN  [n \in 1..Len(kept) |-> [kept[n] EXCEPT !.dayNum = n]]
  ELSE old

ParseWeeklySchedule(old, keyLower, content) ==
  IF IsWeeklySchedule(keyLower)
  THEN LET dayBlocks == Filter(SplitRe(content, MDayHeader), NonBlank)
           days == [n \in 1..Len(dayBlocks) |-> DayOfBlock(dayBlocks[n], n - 1)]
           Kept(d) == d.name # << >> \/ d.primaryFocus # << >>
       IN  Filter(days, Kept)
  ELSE old

\* /###\s*Week\s*<a>[-<en dash>]<b>/i
MWeekHeader(s, p, a, b) ==
  IF p + 2 <= Len(s) /\ SubSeq(s, p, p + 2) = S("###")
  THEN LET w == SkipWhile(s, p + 3, WhiteSpace)
           n == SkipWhile(s, w + 4, WhiteSpace)
       IN  IF /\ LitI(s, w, S("week"))
              /\ n + 2 <= Len(s)
              /\ s[n] = a
              /\ s[n + 1] \in {"-", EnDash}
              /\ s[n + 2] = b
           THEN n + 3 ELSE 0
  ELSE 0

\* content.match(/###\s*Week\s*<a>[-<en dash>]<b>[\s\S]*?(?=###|$)/i): the
\* matched text, from the first such header up to the next ### or the end;
\* Found tells whether there is a match
WeekFound(content, a, b) ==
  LET M(s, p) == MWeekHeader(s, p, a, b) IN FirstMatchAt(content, M) # 0

WeekMatch(content, a, b) ==
  LET M(s, p) == MWeekHeader(s, p, a, b)
      at == FirstMatchAt(content, M)
      e == M(content, at)
      q == IndexOfFrom(content, S("###"), e)
  IN  SubSeq(content, at, IF q = 0 THEN Len(content) ELSE q - 1)

IsProgression(keyLower) ==
  Includes(keyLower, S("progression")) \/ Includes(keyLower, S("4-week"))

ParseProgression(old, keyLower, content) ==
  IF IsProgression(keyLower)
  THEN [old EXCEPT
          !.week1_2 =
             IF WeekFound(content, "1", "2")
             THEN Bullets(WeekMatch(content, "1", "2")) ELSE @,
          !.week3_4 =
             IF WeekFound(content, "3", "4")
             THEN Bullets(WeekMatch(content, "3", "4")) ELSE @]
  ELSE old

\* /\*\*(Run\s*[\d-]+)\*\*:?\s*(.*)/i
MBoldRun(s, p) ==
  LET c == MRunSplit(s, p)
  IN  IF c > 0 /\ c + 1 <= Len(s) /\ SubSeq(s, c, c + 1) = S("**") THEN c + 2 ELSE 0

\* the position of group 2 after the run token that ends at e: :?\s*
AfterRun(s, e) ==
  SkipWhile(s, IF e <= Len(s) /\ s[e] = ":" THEN e + 1 ELSE e, WhiteSpace)

\* the callback of the map of the session plan
SessionEntry(l) ==
  LET b == FirstMatchAt(l, MBoldRun)
      r == FirstMatchAt(l, MRun)
  IN  IF b # 0
      THEN [run |-> SubSeq(l, b + 2, MBoldRun(l, b) - 3),
            activity |-> StripStars(From(l, AfterRun(l, MBoldRun(l, b))))]
      ELSE IF r # 0
      THEN [run |-> SubSeq(l, r, MRun(l, r) - 1),
            activity |-> StripStars(From(l, AfterRun(l, MRun(l, r))))]
      ELSE [run |-> << >>, activity |-> Trim(StripStars(l))]

IsSessionPlan(keyLower) ==
  Includes(keyLower, S("session plan")) \/ Includes(keyLower, S("sample session"))

ParseSessionPlan(old, keyLower, content) ==
  IF IsSessionPlan(keyLower)
  THEN LET IsRun(l) == StartsWith(Trim(l), S("**")) \/ StartsWith(Trim(l), S("Run"))
           Kept(e) == e.activity # << >>
       IN  Filter(Map(Filter(Split(content, <<NL>>), IsRun), SessionEntry), Kept)
  ELSE old

IsCheckpoints(keyLower) ==
  Includes(keyLower, S("checkpoint")) \/ Includes(keyLower, S("progress"))

\* an extraction that appends to the field
ParseCheckpoints_Accumulate(old, keyLower, content) ==
  IF IsCheckpoints(keyLower) THEN old \o Bullets(content) ELSE old

ParseCheckpoints(old, keyLower, content) ==
  IF IsCheckpoints(keyLower)
  THEN Bullets(content)
  ELSE old

IsMentalCues(keyLower) ==
  Includes(keyLower, S("mental cue"))

ParseMentalCues(old, keyLower, content) ==
  IF IsMentalCues(keyLower)
  THEN Bullets(content)
  ELSE old

IsTraps(keyLower) ==
  Includes(keyLower, S("trap")) \/ Includes(keyLower, S("avoid"))

ParseTraps(old, keyLower, content) ==
  IF IsTraps(keyLower)
  THEN Bullets(content)
  ELSE old

\* a callback whose conditionals exclude one another: the first predicate the
\* heading satisfies decides the only field that is assigned
ParseSection_Exclusive(secs, key) ==
  LET keyLower == ToLowerCase(key)
      content == ObjGet(secs.rawSections, key)
  IN  IF IsBigPicture(keyLower)
      THEN [secs EXCEPT !.bigPicture = ParseBigPicture(@, keyLower, content)]
      ELSE IF IsImmediateFocus(keyLower)
      THEN [secs EXCEPT !.immediateFocus = ParseImmediateFocus(@, keyLower, content)]
      ELSE IF IsWeekPlan(keyLower)
      THEN [secs EXCEPT !.weekPlan = ParseWeekPlan(@, keyLower, content)]
      ELSE IF IsStrengths(keyLower)
      THEN [secs EXCEPT !.strengths = ParseStrengths(@, keyLower, content)]
      ELSE IF IsDrills(keyLower)
      THEN [secs EXCEPT !.drills = ParseDrills(@, keyLower, content)]
      ELSE IF IsDailyPlan(keyLower)
      THEN [secs EXCEPT !.dailyPlan = ParseDailyPlan(@, keyLower, content)]
      ELSE IF IsWeeklySchedule(keyLower)
      THEN [secs EXCEPT !.weeklySchedule = ParseWeeklySchedule(@, keyLower, content)]
      ELSE IF IsProgression(keyLower)
      THEN [secs EXCEPT !.progression = ParseProgression(@, keyLower, content)]
      ELSE IF IsSessionPlan(keyLower)
      THEN [secs EXCEPT !.sessionPlan = ParseSessionPlan(@, keyLower, content)]
      ELSE IF IsCheckpoints(keyLower)
      THEN [secs EXCEPT !.checkpoints = ParseCheckpoints(@, keyLower, content)]
      ELSE IF IsMentalCues(keyLower)
      THEN [secs EXCEPT !.mentalCues = ParseMentalCues(@, keyLower, content)]
      ELSE IF IsTraps(keyLower)
      THEN [secs EXCEPT !.traps = ParseTraps(@, keyLower, content)]
      ELSE secs

\* one call of the forEach callback over Object.keys(sections.rawSections):
\* the twelve conditionals, each assigning its own field of sections
ParseSection(secs, key) ==
  [secs EXCEPT
     !.bigPicture =
        ParseBigPicture(@, ToLowerCase(key), ObjGet(secs.rawSections, key)),
     !.immediateFocus =
        ParseImmediateFocus(@, ToLowerCase(key), ObjGet(secs.rawSections, key)),
     !.weekPlan =
        ParseWeekPlan(@, ToLowerCase(key), ObjGet(secs.rawSections, key)),
     !.strengths =
        ParseStrengths(@, ToLowerCase(key), ObjGet(secs.rawSections, key)),
     !.drills =
        ParseDrills(@, ToLowerCase(key), ObjGet(secs.rawSections, key)),
     !.dailyPlan =
        ParseDailyPlan(@, ToLowerCase(key), ObjGet(secs.rawSections, key)),
     !.weeklySchedule =
        ParseWeeklySchedule(@, ToLowerCase(key), ObjGet(secs.rawSections, key)),
     !.progression =
        ParseProgression(@, ToLowerCase(key), ObjGet(secs.rawSections, key)),
     !.sessionPlan =
        ParseSessionPlan(@, ToLowerCase(key), ObjGet(secs.rawSections, key)),
     !.checkpoints =
        ParseCheckpoints(@, ToLowerCase(key), ObjGet(secs.rawSections, key)),
     !.mentalCues =
        ParseMentalCues(@, ToLowerCase(key), ObjGet(secs.rawSections, key)),
     !.traps =
        ParseTraps(@, ToLowerCase(key), ObjGet(secs.rawSections, key))]

-----------------------------------------------------------------------------
(* The state machine of one call parseTrainingPlan(text).                  *)

Pending == [kind |-> "pending"]

Null == [kind |-> "null"]

Plan(secs) == [kind |-> "plan", plan |-> secs]

\* no analysis: useState(null)
NoAnalysis == [kind |-> "null"]

\* no log selected: useState(null)
NoLog == [kind |-> "null"]

\* localStorage without the key 'carv_progress_logs'
Absent == [kind |-> "absent"]

\* no plan: useState(null)
NoPlan == [kind |-> "null"]

\* no error: useState(null)
NoError == [kind |-> "null"]

\* no getScoreColor call made
NoScore == [kind |-> "none"]

\* the state of the upload and of the requests after construction
SessionConstructed ==
  /\ selectedFiles = << >>
  /\ readers = << >>
  /\ error = NoError
  /\ trainingPlan = NoPlan
  /\ loading = FALSE
  /\ planLoading = FALSE
  /\ sessionDateTime = << >>
  /\ showProgressPanel = FALSE
  /\ requests = << >>
  /\ files = << >>

\* no getScoreColor call in progress
ScoreIdle == score = NoScore /\ scoreColor = ""

\* the App state after construction: the useState defaults, nothing stored
AppConstructed ==
  /\ analysis = NoAnalysis
  /\ sessionNotes = ""
  /\ showSaveDialog = FALSE
  /\ progressLogs = << >>
  /\ selectedLogForComparison = NoLog
  /\ storage = Absent
  /\ now = 0
  /\ SessionConstructed
  /\ ScoreIdle

\* the state before the call, for a text drawn from docs
InitWith(docs) ==
  /\ text \in docs
  /\ pc = "call"
  /\ lines = << >>
  /\ i = 1
  /\ currentSection = << >>
  /\ currentContent = << >>
  /\ sections = DefaultSections
  /\ keys = << >>
  /\ k = 1
  /\ result = Pending
  /\ AppConstructed

\* the entry without `if (!text) return null`
Call_NoGuard ==
  /\ pc = "call"
  /\ lines' = Split(text, <<NL>>)
  /\ pc' = "scan"
  /\ i' = 1
  /\ currentSection' = << >>
  /\ currentContent' = << >>
  /\ sections' = DefaultSections
  /\ UNCHANGED <<text, keys, k, result>>
  /\ UNCHANGED appVars

\* entry: `if (!text) return null`, the accumulator, text.split('\n')
Call ==
  /\ pc = "call"
  /\ IF text = << >>
     THEN /\ result' = Null
          /\ pc' = "done"
          /\ UNCHANGED lines
     ELSE /\ lines' = Split(text, <<NL>>)
          /\ pc' = "scan"
          /\ UNCHANGED result
  /\ i' = 1
  /\ currentSection' = << >>
  /\ currentContent' = << >>
  /\ sections' = DefaultSections
  /\ UNCHANGED <<text, keys, k>>
  /\ UNCHANGED appVars

\* a test that takes a '### ' line for a section header too
IsSectionHeader_AnyLevel(line) ==
  StartsWith(line, S("## ")) \/ StartsWith(line, S("### "))

\* line.startsWith('## ')
IsSectionHeader(line) == StartsWith(line, S("## "))

\* a title assignment that keeps a title once it is set
SetTitle_KeepFirst(secs, line) ==
  IF secs.title # << >> THEN secs
  ELSE [secs EXCEPT !.title = Trim(ReplaceFirst(line, S("# "), << >>))]

\* a title assignment that keeps the whole line, marker included
SetTitle_WholeLine(secs, line) == [secs EXCEPT !.title = Trim(line)]

\* sections.title = line.replace('# ', '').trim()
SetTitle(secs, line) ==
  [secs EXCEPT !.title = Trim(ReplaceFirst(line, S("# "), << >>))]

\* a save without the `if (currentSection)` guard
SaveSection_Unguarded(secs, section, content) ==
  [secs EXCEPT !.rawSections = ObjSet(@, section, Join(content, <<NL>>))]

\* if (currentSection) sections.rawSections[currentSection] = currentContent.join('\n')
SaveSection(secs, section, content) ==
  IF section # << >>
  THEN [secs EXCEPT !.rawSections = ObjSet(@, section, Join(content, <<NL>>))]
  ELSE secs

\* one iteration of the loop over lines (lines[i] is the source's lines[i-1]);
\* a '### ' line is pushed like any other line
ScanLine ==
  /\ pc = "scan"
  /\ i <= Len(lines)
  /\ IF StartsWith(lines[i], S("# "))
     THEN /\ sections' = SetTitle(sections, lines[i])
          /\ UNCHANGED <<currentSection, currentContent>>
     ELSE IF IsSectionHeader(lines[i])
     THEN /\ sections' = SaveSection(sections, currentSection, currentContent)
          /\ currentSection' = Trim(ReplaceFirst(lines[i], S("## "), << >>))
          /\ currentContent' = << >>
     ELSE /\ currentContent' = Append(currentContent, lines[i])
          /\ UNCHANGED <<sections, currentSection>>
  /\ i' = i + 1
  /\ UNCHANGED <<text, pc, lines, keys, k, result>>
  /\ UNCHANGED appVars

\* after the loop: save the last section, take Object.keys for the forEach
SaveLast ==
  /\ pc = "scan"
  /\ i > Len(lines)
  /\ sections' = SaveSection(sections, currentSection, currentContent)
  /\ keys' = ObjKeys(sections'.rawSections)
  /\ k' = 1
  /\ pc' = "parse"
  /\ UNCHANGED <<text, lines, i, currentSection, currentContent, result>>
  /\ UNCHANGED appVars

\* one call of the forEach callback
ParseKey ==
  /\ pc = "parse"
  /\ k <= Len(keys)
  /\ sections' = ParseSection(sections, keys[k])
  /\ k' = k + 1
  /\ UNCHANGED <<text, pc, lines, i, currentSection, currentContent, keys, result>>
  /\ UNCHANGED appVars

\* a return that gives null when the document had no section
Return_NullWithoutSections ==
  /\ pc = "parse"
  /\ k > Len(keys)
  /\ result' = IF keys = << >> THEN Null ELSE Plan(sections)
  /\ pc' = "done"
  /\ UNCHANGED <<text, lines, i, currentSection, currentContent, sections, keys, k>>
  /\ UNCHANGED appVars

\* return sections
Return ==
  /\ pc = "parse"
  /\ k > Len(keys)
  /\ result' = Plan(sections)
  /\ pc' = "done"
  /\ UNCHANGED <<text, lines, i, currentSection, currentContent, sections, keys, k>>
  /\ UNCHANGED appVars

Next == Call \/ ScanLine \/ SaveLast \/ ParseKey \/ Return

-----------------------------------------------------------------------------
(* The call as a function of its text.                                     *)

RECURSIVE ScanFrom_ContentNotReset(_, _, _, _, _)
\* a loop whose section header does not run `currentContent = []`
ScanFrom_ContentNotReset(ls, n, secs, section, content) ==
  IF n > Len(ls) THEN SaveSection(secs, section, content)
  ELSE IF StartsWith(ls[n], S("# "))
  THEN ScanFrom_ContentNotReset(ls, n + 1, SetTitle(secs, ls[n]), section, content)
  ELSE IF IsSectionHeader(ls[n])
  THEN ScanFrom_ContentNotReset(ls, n + 1, SaveSection(secs, section, content),
                                Trim(ReplaceFirst(ls[n], S("## "), << >>)), content)
  ELSE ScanFrom_ContentNotReset(ls, n + 1, secs, section, Append(content, ls[n]))

RECURSIVE ScanFrom(_, _, _, _, _)
\* the loop over lines from lines[n] on, then the save of the last section
ScanFrom(ls, n, secs, section, content) ==
  IF n > Len(ls) THEN SaveSection(secs, section, content)
  ELSE IF StartsWith(ls[n], S("# "))
  THEN ScanFrom(ls, n + 1, SetTitle(secs, ls[n]), section, content)
  ELSE IF IsSectionHeader(ls[n])
  THEN ScanFrom(ls, n + 1, SaveSection(secs, section, content),
                Trim(ReplaceFirst(ls[n], S("## "), << >>)), << >>)
  ELSE ScanFrom(ls, n + 1, secs, section, Append(content, ls[n]))

RECURSIVE ParseKeysFrom(_, _, _)
\* Object.keys(sections.rawSections).forEach(...) from ks[n] on
ParseKeysFrom(secs, ks, n) ==
  IF n > Len(ks) THEN secs
  ELSE ParseKeysFrom(ParseSection(secs, ks[n]), ks, n + 1)

\* parseTrainingPlan(t): every call starts from fresh locals
ParseTrainingPlan(t) ==
  IF t = << >> THEN Null
  ELSE LET scanned == ScanFrom(Split(t, <<NL>>), 1, DefaultSections, << >>, << >>)
       IN  Plan(ParseKeysFrom(scanned, ObjKeys(scanned.rawSections), 1))

-----------------------------------------------------------------------------
(* The upload.                                                             *)

\* const validTypes = ['image/png', 'image/jpeg', 'image/jpg', 'image/webp']
validTypes == {S("image/png"), S("image/jpeg"), S("image/jpg"), S("image/webp")}

\* 5 * 1024 * 1024
FiveMB == 5 * 1024 * 1024

\* a File of the browser: its name, its MIME type, its size in bytes
File(name, type, size) == [name |-> S(name), type |-> S(type), size |-> size]

\* an error of the given message
ErrorOf(message) == [kind |-> "error", message |-> message]

\* a size test that rejects a file of exactly 5MB too
TooLarge_FromFiveMB(file) == file.size >= FiveMB

\* file.size > 5 * 1024 * 1024
TooLarge(file) == file.size > FiveMB

\* !validTypes.includes(file.type)
InvalidType(file) == file.type \notin validTypes

\* the files that pass both tests, in the order of the batch
IsValidFile(file) == ~InvalidType(file) /\ ~TooLarge(file)

validFilesOf(fs) == Filter(fs, IsValidFile)

\* the message pushed for a rejected file
ErrorFor(file) ==
  IF InvalidType(file) THEN file.name \o S(": Invalid file type")
  ELSE file.name \o S(": File too large (max 5MB)")

\* the errors array after the forEach, in the order of the batch
IsRejected(file) == ~IsValidFile(file)

errorsOf(fs) == Map(Filter(fs, IsRejected), ErrorFor)

\* the batch number of a new processFiles call: one that no reader in
\* progress carries
NewBatch ==
  Min({b \in 1..(Len(readers) + 1) : \A n \in 1..Len(readers) : readers[n].batch # b})

\* reader.readAsDataURL(file) of one valid file of batch b
ReaderOf(file, b) == [file |-> file, batch |-> b]

\* reader.result: the data URL of a file
PreviewOf(file) == S("data:") \o file.type \o S(";base64,") \o file.name

\* `${file.name}-${Date.now()}-${Math.random()}`
FileId(file, t, r) == file.name \o S("-") \o Decimal(t) \o S("-0.") \o Decimal(r)

\* processFiles(fs): the two tests, setError, one reader per valid file
processFiles(fs) ==
  LET valid == validFilesOf(fs)
      errors == errorsOf(fs)
      b == NewBatch
  IN  /\ Len(selectedFiles) + Len(readers) + Len(valid) <= MaxFiles
      /\ files' = fs
      /\ error' = IF Len(errors) > 0 THEN ErrorOf(Join(errors, S(", "))) ELSE NoError
      /\ readers' = readers \o [n \in 1..Len(valid) |-> ReaderOf(valid[n], b)]
      /\ UNCHANGED <<selectedFiles, trainingPlan, loading, planLoading,
                     sessionDateTime, showProgressPanel, requests>>
      /\ UNCHANGED <<analysis, logVars, scoreVars>>
      /\ UNCHANGED parserVars

\* the nth element removed
RemoveAt(seq, n) == SubSeq(seq, 1, n - 1) \o SubSeq(seq, n + 1, Len(seq))

\* new Date(t).toISOString() of a clock value under one second
IsoOf(t) ==
  S("1970-01-01T00:00:00.")
    \o (IF t < 10 THEN S("00") ELSE IF t < 100 THEN S("0") ELSE << >>)
    \o Decimal(t) \o S("Z")

\* s.slice(0, 16): the format of a datetime-local input, YYYY-MM-DDTHH:MM
Slice16(s) == SubSeq(s, 1, IF Len(s) < 16 THEN Len(s) ELSE 16)

\* axios.post('/api/extract-metadata', formData, ...) not yet settled
MetadataRequest == [kind |-> "metadata"]

\* the object a finished reader builds
FileObject(file, t, r) ==
  [id |-> FileId(file, t, r), file |-> file, preview |-> PreviewOf(file),
   name |-> file.name]

\* reader.onloadend of the nth reader: the file object is appended; the last
\* reader of a batch calls extractMetadataFromFiles, which posts its request
ReaderLoads(n, r) ==
  LET rd == readers[n]
      left == RemoveAt(readers, n)
      allLoaded == \A m \in 1..Len(left) : left[m].batch # rd.batch
  IN  /\ allLoaded => Len(requests) < MaxRequests
      /\ selectedFiles' = Append(selectedFiles, FileObject(rd.file, now, r))
      /\ readers' = left
      /\ requests' = IF allLoaded THEN Append(requests, MetadataRequest) ELSE requests
      /\ UNCHANGED <<error, trainingPlan, loading, planLoading, sessionDateTime,
                     showProgressPanel, files>>
      /\ UNCHANGED <<analysis, logVars, scoreVars>>
      /\ UNCHANGED parserVars

\* what the metadata call may settle with: a list whose first datetime is dt,
\* a list without datetime, a failure
MetadataOutcomes ==
  { [kind |-> "datetime", datetime |-> S("2025-01-04T08:15:00.000Z")],
    [kind |-> "none"], [kind |-> "failed"] }

\* the continuation of extractMetadataFromFiles after its await: the first
\* datetime of the metadata, in the format of the input field, or else, and
\* in the catch, the current time (a datetime in the form toISOString()
\* gives is returned by it unchanged)
MetadataSettles(n, outcome) ==
  /\ requests[n].kind = "metadata"
  /\ requests' = RemoveAt(requests, n)
  /\ sessionDateTime' = IF outcome.kind = "datetime" THEN Slice16(outcome.datetime)
                        ELSE Slice16(IsoOf(now))
  /\ UNCHANGED <<selectedFiles, readers, error, trainingPlan, loading, planLoading,
                 showProgressPanel, files>>
  /\ UNCHANGED <<analysis, logVars, scoreVars>>
  /\ UNCHANGED parserVars

\* removeFile(id)
removeFile(id) ==
  LET Other(f) == f.id # id
  IN  /\ selectedFiles' = Filter(selectedFiles, Other)
      /\ UNCHANGED <<readers, error, trainingPlan, loading, planLoading,
                     sessionDateTime, showProgressPanel, requests, files>>
      /\ UNCHANGED <<analysis, logVars, scoreVars>>
      /\ UNCHANGED parserVars

\* clearAll()
clearAll ==
  /\ selectedFiles' = << >>
  /\ analysis' = NoAnalysis
  /\ trainingPlan' = NoPlan
  /\ error' = NoError
  /\ UNCHANGED <<readers, loading, planLoading, sessionDateTime, showProgressPanel,
                 requests, files>>
  /\ UNCHANGED <<logVars, scoreVars>>
  /\ UNCHANGED parserVars

\* the Clear All button is rendered: selectedFiles.length > 0
ClearAllShown == Len(selectedFiles) > 0

-----------------------------------------------------------------------------
(* The progress log.                                                       *)

\* `log-${Date.now()}`
LogId(t) == S("log-") \o Decimal(t)

\* a value that is a string, or undefined
Str(s) == [kind |-> "string", value |-> s]

Undefined == [kind |-> "undefined"]

\* the truth value of such a value in a condition or on the left of ||
Truthy(v) == v.kind = "string" /\ v.value # << >>

\* an analysis result of the backend: the screenshot carried a session
\* datetime, or none
AnalysisWithDatetime ==
  [kind |-> "analysis", session_datetime |-> Str(S("2025-01-05T10:30:00"))]

AnalysisWithoutDatetime == [kind |-> "analysis", session_datetime |-> Undefined]

\* the analysis results the backend may have answered with
Analyses == {AnalysisWithDatetime, AnalysisWithoutDatetime}

\* analysis?.session_overview?.session_datetime
CarvDateTime(a) == IF a = NoAnalysis THEN Undefined ELSE a.session_datetime

\* the training plan the backend answers with for an analysis
PlanFor(a) == [kind |-> "plan", of |-> a]

\* the texts of the notes field
Notes == {"", "icy"}

\* a precedence that puts the field before the screenshot
MasterDateTime_FieldFirst(a, field, t) ==
  IF field # << >> THEN field
  ELSE IF Truthy(CarvDateTime(a)) THEN CarvDateTime(a).value
  ELSE IsoOf(t)

\* analysis?.session_overview?.session_datetime || sessionDateTime ||
\* new Date().toISOString()
MasterDateTime(a, field, t) ==
  IF Truthy(CarvDateTime(a)) THEN CarvDateTime(a).value
  ELSE IF field # << >> THEN field
  ELSE IsoOf(t)

\* the datetimeSource of the entry
DatetimeSource(a, field) ==
  IF Truthy(CarvDateTime(a)) THEN "carv_screenshot"
  ELSE IF field # << >> THEN "exif_or_filename"
  ELSE "current_time"

\* a choice of previews that takes them all
ScreenshotPreviews_All(fileObjects) ==
  [n \in 1..Len(fileObjects) |-> fileObjects[n].preview]

\* selectedFiles.map(f => f.preview).slice(0, 3)
ScreenshotPreviews(fileObjects) ==
  [n \in 1..(IF Len(fileObjects) < 3 THEN Len(fileObjects) ELSE 3) |->
     fileObjects[n].preview]

\* the entry saveToProgressLog builds at clock value t (datetimeDisplay and
\* metrics, which are parts of the analysis, are left out)
LogEntry(t) ==
  [id |-> LogId(t),
   datetime |-> MasterDateTime(analysis, sessionDateTime, t),
   datetimeSource |-> DatetimeSource(analysis, sessionDateTime),
   notes |-> sessionNotes,
   savedAt |-> IsoOf(t),
   analysis |-> analysis,
   trainingPlan |-> trainingPlan,
   screenshotPreviews |-> ScreenshotPreviews(selectedFiles)]

\* localStorage after setItem(STORAGE_KEY, JSON.stringify(logs))
Stored(logs) == [kind |-> "stored", logs |-> logs]

\* a selected log
Selected(log) == [kind |-> "log", log |-> log]

\* the Save button of the results: onClick={() => setShowSaveDialog(true)}
OpenSaveDialog ==
  /\ analysis # NoAnalysis
  /\ ~showSaveDialog
  /\ showSaveDialog' = TRUE
  /\ UNCHANGED <<analysis, sessionNotes, progressLogs, selectedLogForComparison,
                 storage, now>>
  /\ UNCHANGED parserVars
  /\ UNCHANGED <<sessionVars, scoreVars>>

\* the overlay, the close button and Cancel: setShowSaveDialog(false)
CloseSaveDialog ==
  /\ showSaveDialog
  /\ showSaveDialog' = FALSE
  /\ UNCHANGED <<analysis, sessionNotes, progressLogs, selectedLogForComparison,
                 storage, now>>
  /\ UNCHANGED parserVars
  /\ UNCHANGED <<sessionVars, scoreVars>>

\* the notes field of the dialog: onChange={(e) => setSessionNotes(e.target.value)}
SetSessionNotes(value) ==
  /\ showSaveDialog
  /\ value # sessionNotes
  /\ sessionNotes' = value
  /\ UNCHANGED <<analysis, showSaveDialog, progressLogs, selectedLogForComparison,
                 storage, now>>
  /\ UNCHANGED parserVars
  /\ UNCHANGED <<sessionVars, scoreVars>>

\* the date field of the dialog: onChange={(e) => setSessionDateTime(e.target.value)}
SetSessionDateTime(value) ==
  /\ showSaveDialog
  /\ value # sessionDateTime
  /\ sessionDateTime' = value
  /\ UNCHANGED <<selectedFiles, readers, error, trainingPlan, loading, planLoading,
                 showProgressPanel, requests, files>>
  /\ UNCHANGED <<analysis, logVars, scoreVars>>
  /\ UNCHANGED parserVars

\* the Save Session button of the dialog; the effect on [progressLogs] then
\* writes the non-empty list to localStorage
saveToProgressLog ==
  /\ showSaveDialog
  /\ Len(progressLogs) < MaxLogs
  /\ IF analysis = NoAnalysis
     THEN UNCHANGED <<progressLogs, storage, showSaveDialog, sessionNotes>>
     ELSE /\ progressLogs' = Append(progressLogs, LogEntry(now))
          /\ storage' = Stored(progressLogs')
          /\ showSaveDialog' = FALSE
          /\ sessionNotes' = ""
  /\ UNCHANGED <<analysis, selectedLogForComparison, now>>
  /\ UNCHANGED parserVars
  /\ UNCHANGED <<sessionVars, scoreVars>>

\* the delete button of a listed log; removeItem when nothing is left,
\* otherwise the effect on [progressLogs] writes the remaining list
deleteProgressLog(logId) ==
  LET Kept(log) == log.id # logId
      updated == Filter(progressLogs, Kept)
  IN  /\ progressLogs' = updated
      /\ selectedLogForComparison' =
           IF selectedLogForComparison # NoLog /\ selectedLogForComparison.log.id = logId
           THEN NoLog ELSE selectedLogForComparison
      /\ storage' = IF updated = << >> THEN Absent ELSE Stored(updated)
      /\ UNCHANGED <<analysis, sessionNotes, showSaveDialog, now>>
      /\ UNCHANGED parserVars
      /\ UNCHANGED <<sessionVars, scoreVars>>

\* the logs a reload finds under STORAGE_KEY: getItem gives null for an
\* absent key and the list stays [], otherwise JSON.parse of what was
\* written (an entry holds strings, null, arrays and objects only, and reads
\* the same after stringify and parse)
PersistedLogs == IF storage = Absent THEN << >> ELSE storage.logs

\* one deleteProgressLog(logId) call made from a render that shows `shown`
\* with `chosen` selected, applied to the updates st queued since that
\* render: the functional update filters the queued list, the two tests
\* read the render's progressLogs and selectedLogForComparison
AfterDelete(st, shown, chosen, logId) ==
  LET Kept(log) == log.id # logId
  IN  [logs |-> Filter(st.logs, Kept),
       chosen |-> IF chosen # NoLog /\ chosen.log.id = logId
                  THEN NoLog ELSE st.chosen,
       storage |-> IF Filter(shown, Kept) = << >> THEN Absent ELSE st.storage]

\* the effect on [progressLogs] after the re-render
AfterSaveEffect(st) ==
  IF Len(st.logs) > 0 THEN Stored(st.logs) ELSE st.storage

\* two delete buttons of one rendered list handled before the re-render,
\* then the re-render and the effect
deleteProgressLogTwice(first, second) ==
  LET rendered == [logs |-> progressLogs, chosen |-> selectedLogForComparison,
                   storage |-> storage]
      once == AfterDelete(rendered, progressLogs, selectedLogForComparison, first)
      twice == AfterDelete(once, progressLogs, selectedLogForComparison, second)
  IN  /\ progressLogs' = twice.logs
      /\ selectedLogForComparison' = twice.chosen
      /\ storage' = AfterSaveEffect(twice)
      /\ UNCHANGED <<analysis, sessionNotes, showSaveDialog, now>>
      /\ UNCHANGED parserVars
      /\ UNCHANGED <<sessionVars, scoreVars>>

\* the page is loaded again: every state hook starts from its initial
\* value, the mount effect reads the logs from localStorage and the effect on
\* [progressLogs] writes them back when there are any
Reload ==
  /\ progressLogs' = PersistedLogs
  /\ storage' = IF Len(PersistedLogs) > 0 THEN Stored(PersistedLogs) ELSE storage
  /\ analysis' = NoAnalysis
  /\ sessionNotes' = ""
  /\ showSaveDialog' = FALSE
  /\ selectedLogForComparison' = NoLog
  /\ selectedFiles' = << >>
  /\ readers' = << >>
  /\ error' = NoError
  /\ trainingPlan' = NoPlan
  /\ loading' = FALSE
  /\ planLoading' = FALSE
  /\ sessionDateTime' = << >>
  /\ showProgressPanel' = FALSE
  /\ requests' = << >>
  /\ files' = << >>
  /\ UNCHANGED <<now, scoreVars>>
  /\ UNCHANGED parserVars

\* the compare button of a listed log, shown when there are several logs
ToggleComparison(log) ==
  /\ Len(progressLogs) > 1
  /\ selectedLogForComparison' =
       IF selectedLogForComparison # NoLog /\ selectedLogForComparison.log.id = log.id
       THEN NoLog ELSE Selected(log)
  /\ UNCHANGED <<analysis, sessionNotes, showSaveDialog, progressLogs, storage, now>>
  /\ UNCHANGED parserVars
  /\ UNCHANGED <<sessionVars, scoreVars>>

\* the Load button of a listed log
loadProgressLog(log) ==
  /\ analysis' = log.analysis
  /\ trainingPlan' = log.trainingPlan
  /\ sessionDateTime' = log.datetime
  /\ showProgressPanel' = FALSE
  /\ UNCHANGED <<selectedFiles, readers, error, loading, planLoading, requests, files>>
  /\ UNCHANGED <<logVars, scoreVars>>
  /\ UNCHANGED parserVars

\* the Progress Log button of the header, the overlay and the close button
\* of the panel
ToggleProgressPanel ==
  /\ showProgressPanel' = ~showProgressPanel
  /\ UNCHANGED <<selectedFiles, readers, error, trainingPlan, loading, planLoading,
                 sessionDateTime, requests, files>>
  /\ UNCHANGED <<analysis, logVars, scoreVars>>
  /\ UNCHANGED parserVars

\* a millisecond passes
Tick ==
  /\ now < MaxClock
  /\ now' = now + 1
  /\ UNCHANGED <<analysis, sessionNotes, showSaveDialog, progressLogs,
                 selectedLogForComparison, storage>>
  /\ UNCHANGED parserVars
  /\ UNCHANGED <<sessionVars, scoreVars>>

NextLog ==
  \/ OpenSaveDialog
  \/ CloseSaveDialog
  \/ \E value \in Notes : SetSessionNotes(value)
  \/ saveToProgressLog
  \/ ToggleProgressPanel
  \/ showProgressPanel /\ \E n \in 1..Len(progressLogs) : deleteProgressLog(progressLogs[n].id)
  \/ showProgressPanel /\ \E n \in 1..Len(progressLogs) : ToggleComparison(progressLogs[n])
  \/ ClearAllShown /\ clearAll
  \/ Tick

\* the log with its storage: saves, deletes (one, or two of one rendered
\* list), reloads
NextStore ==
  \/ OpenSaveDialog
  \/ saveToProgressLog
  \/ ToggleProgressPanel
  \/ showProgressPanel /\ \E n \in 1..Len(progressLogs) : deleteProgressLog(progressLogs[n].id)
  \/ showProgressPanel /\ \E m, n \in 1..Len(progressLogs) :
       deleteProgressLogTwice(progressLogs[m].id, progressLogs[n].id)
  \/ Reload
  \/ Tick

\* what the user may type in the date field: nothing, a date
FieldValues == {<< >>, S("2025-02-01T12:00")}

NextStamp ==
  \/ OpenSaveDialog
  \/ CloseSaveDialog
  \/ \E value \in FieldValues : SetSessionDateTime(value)
  \/ saveToProgressLog
  \/ ToggleProgressPanel
  \/ showProgressPanel /\ \E n \in 1..Len(progressLogs) : loadProgressLog(progressLogs[n])
  \/ Tick

-----------------------------------------------------------------------------
(* The two requests.                                                       *)

\* axios.post('/api/analyze', formData, ...) not yet settled
AnalyzeRequest(fileObjects) == [kind |-> "analyze", files |-> fileObjects]

\* axios.post('/api/generate-plan', analysis) not yet settled
PlanRequest(a) == [kind |-> "plan", analysis |-> a]

\* what a call may settle with: a response, or an error whose response
\* carries a message, an error text, or nothing
Failures ==
  { [kind |-> "failed", message |-> Str(S("Too many requests")), error |-> Undefined],
    [kind |-> "failed", message |-> Undefined, error |-> Str(S("No CARV data found"))],
    [kind |-> "failed", message |-> Undefined, error |-> Undefined] }

Succeeded(data) == [kind |-> "ok", data |-> data]

\* err.response?.data?.message || err.response?.data?.error || fallback
ErrorMessage(outcome, fallback) ==
  IF Truthy(outcome.message) THEN outcome.message.value
  ELSE IF Truthy(outcome.error) THEN outcome.error.value
  ELSE fallback

\* analyzeAllScreenshots() up to its await
analyzeAllScreenshots ==
  /\ IF Len(selectedFiles) = 0
     THEN /\ error' = ErrorOf(S("Please select at least one screenshot"))
          /\ UNCHANGED <<loading, analysis, trainingPlan, requests>>
     ELSE /\ Len(requests) < MaxRequests
          /\ loading' = TRUE
          /\ error' = NoError
          /\ analysis' = NoAnalysis
          /\ trainingPlan' = NoPlan
          /\ requests' = Append(requests, AnalyzeRequest(selectedFiles))
  /\ UNCHANGED <<selectedFiles, readers, planLoading, sessionDateTime,
                 showProgressPanel, files>>
  /\ UNCHANGED <<logVars, scoreVars>>
  /\ UNCHANGED parserVars

\* a continuation whose failure path leaves the busy flag set
AnalyzeSettles_NoFinally(n, outcome) ==
  /\ requests[n].kind = "analyze"
  /\ requests' = RemoveAt(requests, n)
  /\ IF outcome.kind = "ok"
     THEN /\ analysis' = outcome.data
          /\ sessionDateTime' = IF Truthy(CarvDateTime(outcome.data))
                                THEN Slice16(CarvDateTime(outcome.data).value)
                                ELSE sessionDateTime
          /\ loading' = FALSE
          /\ UNCHANGED error
     ELSE /\ error' = ErrorOf(ErrorMessage(outcome,
                        S("Failed to analyze screenshots. Is the backend running?")))
          /\ UNCHANGED <<analysis, sessionDateTime, loading>>
  /\ UNCHANGED <<selectedFiles, readers, trainingPlan, planLoading,
                 showProgressPanel, files>>
  /\ UNCHANGED <<logVars, scoreVars>>
  /\ UNCHANGED parserVars

\* analyzeAllScreenshots() after its await: the try, the catch, the finally
AnalyzeSettles(n, outcome) ==
  /\ requests[n].kind = "analyze"
  /\ requests' = RemoveAt(requests, n)
  /\ IF outcome.kind = "ok"
     THEN /\ analysis' = outcome.data
          /\ sessionDateTime' = IF Truthy(CarvDateTime(outcome.data))
                                THEN Slice16(CarvDateTime(outcome.data).value)
                                ELSE sessionDateTime
          /\ UNCHANGED error
     ELSE /\ error' = ErrorOf(ErrorMessage(outcome,
                        S("Failed to analyze screenshots. Is the backend running?")))
          /\ UNCHANGED <<analysis, sessionDateTime>>
  /\ loading' = FALSE
  /\ UNCHANGED <<selectedFiles, readers, trainingPlan, planLoading,
                 showProgressPanel, files>>
  /\ UNCHANGED <<logVars, scoreVars>>
  /\ UNCHANGED parserVars

\* generateTrainingPlan() up to its await
generateTrainingPlan ==
  /\ IF analysis = NoAnalysis
     THEN /\ error' = ErrorOf(S("Please analyze screenshots first"))
          /\ UNCHANGED <<planLoading, requests>>
     ELSE /\ Len(requests) < MaxRequests
          /\ planLoading' = TRUE
          /\ error' = NoError
          /\ requests' = Append(requests, PlanRequest(analysis))
  /\ UNCHANGED <<selectedFiles, readers, trainingPlan, loading, sessionDateTime,
                 showProgressPanel, files>>
  /\ UNCHANGED <<analysis, logVars, scoreVars>>
  /\ UNCHANGED parserVars

\* a continuation whose failure path clears the plan
PlanSettles_FailureClearsPlan(n, outcome) ==
  /\ requests[n].kind = "plan"
  /\ requests' = RemoveAt(requests, n)
  /\ IF outcome.kind = "ok"
     THEN /\ trainingPlan' = outcome.data
          /\ UNCHANGED error
     ELSE /\ error' = ErrorOf(ErrorMessage(outcome, S("Failed to generate training plan")))
          /\ trainingPlan' = NoPlan
  /\ planLoading' = FALSE
  /\ UNCHANGED <<selectedFiles, readers, loading, sessionDateTime,
                 showProgressPanel, files>>
  /\ UNCHANGED <<analysis, logVars, scoreVars>>
  /\ UNCHANGED parserVars

\* generateTrainingPlan() after its await: the try, the catch, the finally
PlanSettles(n, outcome) ==
  /\ requests[n].kind = "plan"
  /\ requests' = RemoveAt(requests, n)
  /\ IF outcome.kind = "ok"
     THEN /\ trainingPlan' = outcome.data
          /\ UNCHANGED error
     ELSE /\ error' = ErrorOf(ErrorMessage(outcome, S("Failed to generate training plan")))
          /\ UNCHANGED trainingPlan
  /\ planLoading' = FALSE
  /\ UNCHANGED <<selectedFiles, readers, loading, sessionDateTime,
                 showProgressPanel, files>>
  /\ UNCHANGED <<analysis, logVars, scoreVars>>
  /\ UNCHANGED parserVars

\* the Analyze button is enabled: !(selectedFiles.length === 0 || loading)
AnalyzeEnabled == ~(Len(selectedFiles) = 0 \/ loading)

\* the Generate Training Plan button is rendered and enabled
GenerateEnabled == analysis # NoAnalysis /\ ~planLoading

\* what the analyze call may settle with
AnalyzeOutcomes == {Succeeded(a) : a \in Analyses} \cup Failures

\* what the plan call for the nth request may settle with: the plan of the
\* analysis that was posted, or a failure
PlanOutcomes(n) == {Succeeded(PlanFor(requests[n].analysis))} \cup Failures

-----------------------------------------------------------------------------
(* The colour class of a score.                                            *)

\* a score that is a number, null, undefined
Number(n) == [kind |-> "number", value |-> n]

NullScore == [kind |-> "null"]

UndefinedScore == [kind |-> "undefined"]

\* a colouring whose green band starts above 70
getScoreColor_GoodAbove70(sc) ==
  IF sc = NullScore \/ sc = UndefinedScore THEN "score-unknown"
  ELSE IF sc.value > 70 THEN "score-good"
  ELSE IF sc.value >= 50 THEN "score-medium"
  ELSE "score-poor"

\* getScoreColor(score)
getScoreColor(sc) ==
  IF sc = NullScore \/ sc = UndefinedScore THEN "score-unknown"
  ELSE IF sc.value >= 70 THEN "score-good"
  ELSE IF sc.value >= 50 THEN "score-medium"
  ELSE "score-poor"

\* one call: the class name is returned for the argument
CallGetScoreColor ==
  /\ score # NoScore
  /\ scoreColor = ""
  /\ scoreColor' = getScoreColor(score)
  /\ UNCHANGED <<score, analysis, logVars, sessionVars>>
  /\ UNCHANGED parserVars

NextScore == CallGetScoreColor

-----------------------------------------------------------------------------
(* The upload as the user drives it.                                       *)

\* a file of an accepted type at the size limit, one just above it, one of a
\* rejected type
SampleFiles ==
  { File("b.jpg", "image/jpeg", FiveMB),
    File("c.webp", "image/webp", FiveMB + 1),
    File("e.gif", "image/gif", 1) }

\* what one drop or one selection may hold: some of the files, each once
Batches ==
  {fs \in UNION {[1..m -> SampleFiles] : m \in 1..MaxBatch} :
     \A m, n \in 1..Len(fs) : m # n => fs[m] # fs[n]}

NextFiles ==
  \/ \E fs \in Batches : processFiles(fs)
  \/ \E n \in 1..Len(readers), r \in 1..MaxRandom : ReaderLoads(n, r)
  \/ \E n \in 1..Len(requests), outcome \in MetadataOutcomes : MetadataSettles(n, outcome)
  \/ \E n \in 1..Len(selectedFiles) : removeFile(selectedFiles[n].id)
  \/ ClearAllShown /\ clearAll

-----------------------------------------------------------------------------
(* The session as the user drives it: upload, analyze, generate, clear,    *)
(* load a saved session.                                                   *)

\* one drop of one valid screenshot
OneScreenshot == {<<File("b.jpg", "image/jpeg", FiveMB)>>}

NextSession ==
  \/ \E fs \in OneScreenshot : processFiles(fs)
  \/ \E n \in 1..Len(readers), r \in 1..MaxRandom : ReaderLoads(n, r)
  \/ \E n \in 1..Len(requests), outcome \in MetadataOutcomes : MetadataSettles(n, outcome)
  \/ ClearAllShown /\ clearAll
  \/ AnalyzeEnabled /\ analyzeAllScreenshots
  \/ \E n \in 1..Len(requests), outcome \in AnalyzeOutcomes : AnalyzeSettles(n, outcome)
  \/ GenerateEnabled /\ generateTrainingPlan
  \/ \E n \in 1..Len(requests) :
       requests[n].kind = "plan" /\ \E outcome \in PlanOutcomes(n) : PlanSettles(n, outcome)
  \/ ToggleProgressPanel
  \/ showProgressPanel /\ \E n \in 1..Len(progressLogs) : loadProgressLog(progressLogs[n])

-----------------------------------------------------------------------------
(* The two requests as the buttons start them, and their settling.         *)

AnalyzeSettlesSome ==
  \E n \in 1..Len(requests), outcome \in AnalyzeOutcomes : AnalyzeSettles(n, outcome)

PlanSettlesSome ==
  \E n \in 1..Len(requests) :
    requests[n].kind = "plan" /\ \E outcome \in PlanOutcomes(n) : PlanSettles(n, outcome)

NextBusy ==
  \/ AnalyzeEnabled /\ analyzeAllScreenshots
  \/ AnalyzeSettlesSome
  \/ GenerateEnabled /\ generateTrainingPlan
  \/ PlanSettlesSome
  \/ ClearAllShown /\ clearAll
  \/ \E n \in 1..Len(selectedFiles) : removeFile(selectedFiles[n].id)

\* the same, and the two handlers called in the cases their first test is
\* there for: nothing selected, nothing analyzed
NextHandlers ==
  \/ (AnalyzeEnabled \/ Len(selectedFiles) = 0) /\ analyzeAllScreenshots
  \/ AnalyzeSettlesSome
  \/ (GenerateEnabled \/ analysis = NoAnalysis) /\ generateTrainingPlan
  \/ PlanSettlesSome
  \/ ClearAllShown /\ clearAll
  \/ \E n \in 1..Len(selectedFiles) : removeFile(selectedFiles[n].id)

\* a session in which the user does nothing more once Clear All has emptied
\* the page: screenshots are added to the ones selected, never to an empty
\* page, and no screenshot is removed one by one, so selectedFiles is empty
\* only after clearAll; the buttons of an empty page are disabled or absent
NextClear ==
  \/ Len(selectedFiles) > 0 /\ \E fs \in OneScreenshot : processFiles(fs)
  \/ \E n \in 1..Len(readers), r \in 1..MaxRandom : ReaderLoads(n, r)
  \/ \E n \in 1..Len(requests), outcome \in MetadataOutcomes : MetadataSettles(n, outcome)
  \/ AnalyzeEnabled /\ analyzeAllScreenshots
  \/ AnalyzeSettlesSome
  \/ GenerateEnabled /\ generateTrainingPlan
  \/ PlanSettlesSome
  \/ ClearAllShown /\ clearAll

\* every HTTP call settles
CallsSettle == WF_vars(AnalyzeSettlesSome) /\ WF_vars(PlanSettlesSome)

-----------------------------------------------------------------------------
(* Inputs.                                                                 *)

\* the sequences of at most n elements of A
SeqsUpTo(A, n) == UNION {[1..m -> A] : m \in 0..n}

\* the documents of at most MaxLines lines over an alphabet of lines
DocsOver(alphabet) == {Join(ls, <<NL>>) : ls \in SeqsUpTo(alphabet, MaxLines)}

\* the documents of one section: its heading line, then at most MaxBody lines
OneSection(heading, alphabet) ==
  {Join(<<heading>> \o ls, <<NL>>) : ls \in SeqsUpTo(alphabet, MaxBody)}

\* title lines, three headings (two match the checkpoints predicate, one
\* matches nothing) and bullets
ScanAlphabet ==
  { S("# T"), S("# U"), S("## Progress Checkpoints"), S("## 4-Week Progression"),
    S("## Notes"), S("- a"), S("- b") }

Init == InitWith(DocsOver(ScanAlphabet))

Spec == Init /\ [][Next]_vars

\* headings that are unmatched, matched, empty and not storable, a title
\* line, a sub-heading and a bullet
RawAlphabet ==
  { S("# T"), S("## Notes"), S("## Checkpoints"), S("## "), S("## __proto__"),
    S("### Sub"), S("- a") }

InitRaw == InitWith(DocsOver(RawAlphabet))

SpecRaw == InitRaw /\ [][Next]_vars

\* a daily-plan section: run headers, bullets, a blank line, a line of prose
DailyAlphabet ==
  { S("**Run 1: Warm-up**"), S("**Run 2-3: Drill**"), S("- a"), S("- b"),
    << >>, S("intro") }

InitDaily == InitWith(OneSection(S("## Daily Session Plan"), DailyAlphabet))

SpecDaily == InitDaily /\ [][Next]_vars

\* a weekly-schedule section: day headers, a name, a primary focus, a rule
\* (a line that yields no name) and a blank line
WeeklyAlphabet ==
  { S("### Day 1"), S("### Day 5: Rest"), S("Carving"), S("Primary Focus: Edge"),
    S("---"), << >> }

InitWeekly == InitWith(OneSection(S("## Weekly Training Schedule"), WeeklyAlphabet))

SpecWeekly == InitWeekly /\ [][Next]_vars

\* one section whose heading satisfies the checkpoints and the week-plan
\* predicates: priority headers, bullets, a labelled line, a blank line
ComboAlphabet ==
  { S("### Priority 1"), S("### Priority 2: Edge"), S("- a"), S("- b"),
    S("Drill: X"), << >> }

InitCombo == InitWith(OneSection(S("## Progress and Priorities"), ComboAlphabet))

SpecCombo == InitCombo /\ [][Next]_vars

\* one section under a heading of a list-of-bullets field: bullets with and
\* without a space after the dash, with trailing white space, an indented
\* bullet, a line of prose and a blank line
BulletHeadings ==
  { S("## The Big Picture"), S("## Building on Strengths"), S("## Checkpoints"),
    S("## Mental Cues"), S("## Traps to Avoid") }

BulletAlphabet == { S("- a"), S("-b "), S("  - c"), S("text"), << >> }

InitBullets ==
  InitWith(UNION {OneSection(h, BulletAlphabet) : h \in BulletHeadings})

SpecBullets == InitBullets /\ [][Next]_vars

\* a priorities section built from pieces of one or two lines: a priority
\* header with its drill line (twice), the current/target line, a terrain line
\* whose value holds a colon, a drill line in bold whose value holds a colon,
\* and a blank line
CurrentLine == S("Current: 45 ") \o <<Arrow>> \o S(" 60")

PriorityAlphabet ==
  { S("### Priority 1\nDrill: X"), S("### Priority 2: Edge\nDrill: Y"),
    CurrentLine, S("Terrain: Blue: steep"), S("- **Drill:** J-turns: slow"), << >> }

InitPriorities ==
  InitWith(OneSection(S("## This Week's Priorities"), PriorityAlphabet))

SpecPriorities == InitPriorities /\ [][Next]_vars

\* a drills section: a bare drill header, a header with a name and a focus
\* word, a target-metric line, a terrain line and a rule (a first line that
\* yields no name)
DrillAlphabet ==
  { S("### Drill 1"), S("### Drill 2: Rail - Primary Focus"),
    S("Target Metric: Edge Angle"), S("Terrain: a"), S("---") }

InitDrills == InitWith(OneSection(S("## Your 3 Key Drills"), DrillAlphabet))

SpecDrills == InitDrills /\ [][Next]_vars

\* a drills section with repeated labels: a drill header, two terrain lines
\* (one value holds a colon), an execution line and a rule
LabelAlphabet ==
  { S("### Drill 1"), S("Terrain: a"), S("Terrain: b: c"), S("Execution: x"),
    S("---") }

InitLabels == InitWith(OneSection(S("## Your 3 Key Drills"), LabelAlphabet))

SpecLabels == InitLabels /\ [][Next]_vars

\* an immediate-focus section: cue lines in three spellings (one with quotes),
\* a bold label, a line that begins with '#' once its dash is stripped, and a
\* blank line
FocusAlphabet ==
  { S("- Mental cue: a"), S("Cue: \"b\""), S("MENTAL CUE: c"), S("- **Drill:** X"),
    S("- # h"), << >> }

InitFocus == InitWith(OneSection(S("## Immediate Focus"), FocusAlphabet))

SpecFocus == InitFocus /\ [][Next]_vars

\* two bullet sections (one heading with blanks around its name), a title
\* line, bullets and a blank line
ReparseAlphabet ==
  { S("# T"), S("## Checkpoints"), S("##  Mental Cues "), S("- a"), S("- b"), << >> }

InitReparse == InitWith(DocsOver(ReparseAlphabet))

SpecReparse == InitReparse /\ [][Next]_vars

\* four file objects, as four finished readers left them
FourFiles ==
  [n \in 1..4 |-> FileObject(File("b.jpg", "image/jpeg", FiveMB), 0, n)]

\* the App before any analysis, and after the analysis of four screenshots
\* (with the date field as the analysis or else the metadata set it, with
\* or without a plan); an empty log, no parse running
AfterAnalysis ==
  \/ /\ analysis = NoAnalysis
     /\ selectedFiles = << >>
     /\ sessionDateTime = << >>
     /\ trainingPlan = NoPlan
  \/ /\ analysis \in Analyses
     /\ selectedFiles = FourFiles
     /\ sessionDateTime = IF Truthy(analysis.session_datetime)
                          THEN Slice16(analysis.session_datetime.value)
                          ELSE S("2025-01-04T08:15")
     /\ trainingPlan \in {NoPlan, PlanFor(analysis)}

InitLog ==
  /\ text = << >>
  /\ pc = "call"
  /\ lines = << >>
  /\ i = 1
  /\ currentSection = << >>
  /\ currentContent = << >>
  /\ sections = DefaultSections
  /\ keys = << >>
  /\ k = 1
  /\ result = Pending
  /\ AfterAnalysis
  /\ sessionNotes = ""
  /\ showSaveDialog = FALSE
  /\ progressLogs = << >>
  /\ selectedLogForComparison = NoLog
  /\ storage = Absent
  /\ now = 0
  /\ readers = << >>
  /\ error = NoError
  /\ loading = FALSE
  /\ planLoading = FALSE
  /\ showProgressPanel = FALSE
  /\ requests = << >>
  /\ files = << >>
  /\ ScoreIdle

SpecLog == InitLog /\ [][NextLog]_vars

SpecStamp == InitLog /\ [][NextStamp]_vars

SpecStore == InitLog /\ [][NextStore]_vars

\* the integer scores, null and undefined
Scores == {Number(n) : n \in -MaxScore..MaxScore} \cup {NullScore, UndefinedScore}

\* a getScoreColor call about to be made, with any of the scores
InitScore ==
  /\ text = << >>
  /\ pc = "call"
  /\ lines = << >>
  /\ i = 1
  /\ currentSection = << >>
  /\ currentContent = << >>
  /\ sections = DefaultSections
  /\ keys = << >>
  /\ k = 1
  /\ result = Pending
  /\ analysis = NoAnalysis
  /\ sessionNotes = ""
  /\ showSaveDialog = FALSE
  /\ progressLogs = << >>
  /\ selectedLogForComparison = NoLog
  /\ storage = Absent
  /\ now = 0
  /\ SessionConstructed
  /\ score \in Scores
  /\ scoreColor = ""

SpecScore == InitScore /\ [][NextScore]_vars

\* the App after construction, about to receive files
InitFiles == InitWith({<< >>})

SpecFiles == InitFiles /\ [][NextFiles]_vars

\* an entry saved in an earlier visit
SavedEntry ==
  [id |-> LogId(0),
   datetime |-> S("2024-12-20T09:00"),
   datetimeSource |-> "exif_or_filename",
   notes |-> "",
   savedAt |-> IsoOf(0),
   analysis |-> AnalysisWithoutDatetime,
   trainingPlan |-> PlanFor(AnalysisWithoutDatetime),
   screenshotPreviews |-> << >>]

\* the App after mount, with the log of an earlier visit loaded from
\* localStorage
InitSession ==
  /\ text = << >>
  /\ pc = "call"
  /\ lines = << >>
  /\ i = 1
  /\ currentSection = << >>
  /\ currentContent = << >>
  /\ sections = DefaultSections
  /\ keys = << >>
  /\ k = 1
  /\ result = Pending
  /\ analysis = NoAnalysis
  /\ sessionNotes = ""
  /\ showSaveDialog = FALSE
  /\ progressLogs = <<SavedEntry>>
  /\ selectedLogForComparison = NoLog
  /\ storage = Stored(<<SavedEntry>>)
  /\ now = 1
  /\ SessionConstructed
  /\ ScoreIdle

SpecSession == InitSession /\ [][NextSession]_vars

\* the App with one screenshot selected and nothing analyzed
InitBusy ==
  /\ text = << >>
  /\ pc = "call"
  /\ lines = << >>
  /\ i = 1
  /\ currentSection = << >>
  /\ currentContent = << >>
  /\ sections = DefaultSections
  /\ keys = << >>
  /\ k = 1
  /\ result = Pending
  /\ analysis = NoAnalysis
  /\ sessionNotes = ""
  /\ showSaveDialog = FALSE
  /\ progressLogs = << >>
  /\ selectedLogForComparison = NoLog
  /\ storage = Absent
  /\ now = 0
  /\ selectedFiles = <<FileObject(File("b.jpg", "image/jpeg", FiveMB), 0, 1)>>
  /\ readers = << >>
  /\ error = NoError
  /\ trainingPlan = NoPlan
  /\ loading = FALSE
  /\ planLoading = FALSE
  /\ sessionDateTime = S("2025-01-04T08:15")
  /\ showProgressPanel = FALSE
  /\ requests = << >>
  /\ files = << >>
  /\ ScoreIdle

SpecBusy == InitBusy /\ [][NextBusy]_vars

SpecHandlers == InitBusy /\ [][NextHandlers]_vars

SpecClear == InitBusy /\ [][NextClear]_vars

\* the same, every HTTP call settling
SpecBusyFair == InitBusy /\ [][NextBusy]_vars /\ CallsSettle

-----------------------------------------------------------------------------
(* The document as the claims read it: its lines, its title lines, its     *)
(* '## ' heading lines and the lines between one heading and the next.     *)

DocLines == Split(text, <<NL>>)

TitleIdx == {n \in 1..Len(DocLines) : StartsWith(DocLines[n], S("# "))}

HeadIdx == {n \in 1..Len(DocLines) : StartsWith(DocLines[n], S("## "))}

\* the text of the title line n, of the heading line n
TitleAt(n) == Trim(From(DocLines[n], 3))

HeadingAt(n) == Trim(From(DocLines[n], 4))

\* the lines of doc between the heading line n and the next of the heading
\* lines heads (or the end)
BodyLinesOf(doc, heads, n) ==
  LET later == {m \in heads : m > n}
  IN  SubSeq(doc, n + 1, IF later = {} THEN Len(doc) ELSE Min(later) - 1)

\* the lines between the heading line n and the next heading line (or the end)
BodyLinesAt(n) == BodyLinesOf(DocLines, HeadIdx, n)

BodyAt(n) == Join(BodyLinesAt(n), <<NL>>)

\* the same lines without the '# ' title lines among them
NotTitleLine(l) == ~StartsWith(l, S("# "))

BodyWithoutTitlesAt(n) == Join(Filter(BodyLinesAt(n), NotTitleLine), <<NL>>)

\* the sections of doc by heading line: the heading, the body, and the body
\* without title lines
ReadingOf(doc, heads) ==
  [n \in heads |->
     [heading |-> Trim(From(doc[n], 4)),
      body |-> Join(BodyLinesOf(doc, heads, n), <<NL>>),
      plain |-> Join(Filter(BodyLinesOf(doc, heads, n), NotTitleLine), <<NL>>)]]

Reading == ReadingOf(DocLines, HeadIdx)

\* the last, the first heading line of a reading that carries the heading of
\* line n
LastIn(rd, n) == Max({m \in DOMAIN rd : rd[m].heading = rd[n].heading})

FirstIn(rd, n) == Min({m \in DOMAIN rd : rd[m].heading = rd[n].heading})

LastOccurrence(n) == LastIn(Reading, n)

FirstOccurrence(n) == FirstIn(Reading, n)

Returned == pc = "done" /\ result.kind = "plan"

Range(seq) == {seq[n] : n \in 1..Len(seq)}

\* the typed fields of a result: everything but title and rawSections
TypedFields(plan) ==
  [f \in DOMAIN plan \ {"title", "rawSections"} |-> plan[f]]

-----------------------------------------------------------------------------
(* C1.  Empty input.                                                       *)

\* C1 (as stated): parseTrainingPlan('') returns a ParsedPlan whose every field
\* is at its default, not an absent result.
C1_EmptyTextGivesDefaults ==
  (pc = "done" /\ text = << >>) => result = Plan(DefaultSections)

\* C1 (amended): parseTrainingPlan('') returns null: the absent result, and no
\* ParsedPlan at all.
C1_EmptyTextGivesNull ==
  (pc = "done" /\ text = << >>) => result = Null

C1_Witness == pc = "done" /\ text = << >> /\ result # Pending

-----------------------------------------------------------------------------
(* C2.  Termination and completeness of the result.                        *)

IsList(x) == DOMAIN x = 1..Len(x)

\* every ParsedPlan field is present and is a string, a list or a record
Complete(plan) ==
  /\ DOMAIN plan = DOMAIN DefaultSections
  /\ \A f \in {"title", "bigPicture", "drills", "dailyPlan", "weeklySchedule",
               "weekPlan", "strengths", "sessionPlan", "checkpoints",
               "mentalCues", "traps", "rawSections"} : IsList(plan[f])
  /\ DOMAIN plan.immediateFocus = {"drill", "cue", "details"}
  /\ IsList(plan.immediateFocus.cue) /\ IsList(plan.immediateFocus.details)
  /\ DOMAIN plan.progression = {"week1_2", "week3_4"}
  /\ IsList(plan.progression.week1_2) /\ IsList(plan.progression.week3_4)

\* C2 (as stated): for every input string the call ends with a record in which
\* every ParsedPlan field is present, never null.
C2_AlwaysCompletePlan ==
  pc = "done" => (result.kind = "plan" /\ Complete(result.plan))

\* C2 (amended): the two loops of the call are bounded (the line index and the
\* key index only advance, within the number of lines and of keys), and for
\* every non-empty input string the call returns a record in which every
\* ParsedPlan field is present and is a string, a list or a record; for the
\* empty string it returns null.
C2_NonEmptyTextGivesCompletePlan ==
  /\ pc \in {"call", "scan", "parse", "done"}
  /\ pc = "scan" => i \in 1..(Len(lines) + 1)
  /\ pc = "parse" => k \in 1..(Len(keys) + 1)
  /\ (pc = "done" /\ text # << >>) => (result.kind = "plan" /\ Complete(result.plan))
  /\ (pc = "done" /\ text = << >>) => result = Null

C2_Witness == Returned /\ text # << >> /\ keys = << >> /\ Complete(result.plan)

-----------------------------------------------------------------------------
(* C3.  Several title lines.                                               *)

\* C3 (as stated): the title is taken from the first '# ' line; later title
\* lines leave it unchanged and start no new section.
C3_FirstTitleWins ==
  Returned =>
    /\ result.plan.title = IF TitleIdx = {} THEN << >> ELSE TitleAt(Min(TitleIdx))
    /\ \A e \in Range(result.plan.rawSections) :
         \E n \in HeadIdx : HeadingAt(n) = e.key

\* C3 (amended): the title is taken from the last '# ' line (every title line
\* overwrites it); a title line starts no new section (every key of
\* rawSections is the heading of a '## ' line) and is part of no section body.
C3_LastTitleWins ==
  Returned =>
    LET rd == Reading
    IN  /\ result.plan.title =
             IF TitleIdx = {} THEN << >> ELSE TitleAt(Max(TitleIdx))
        /\ \A e \in Range(result.plan.rawSections) :
             /\ \E n \in DOMAIN rd : rd[n].heading = e.key
             /\ \A l \in Range(Split(e.value, <<NL>>)) : NotTitleLine(l)

C3_Witness ==
  /\ Returned
  /\ Cardinality(TitleIdx) >= 2
  /\ TitleAt(Min(TitleIdx)) # TitleAt(Max(TitleIdx))
  /\ \E n \in HeadIdx : n < Max(TitleIdx)

-----------------------------------------------------------------------------
(* C4, C5.  Several sections matching the checkpoints predicate.           *)

\* the heading lines of a reading whose heading satisfies the checkpoints
\* predicate
CheckpointHeadsIn(rd) == {n \in DOMAIN rd : IsCheckpoints(ToLowerCase(rd[n].heading))}

CheckpointHeads == CheckpointHeadsIn(Reading)

CheckpointHeadings == {HeadingAt(n) : n \in CheckpointHeads}

\* the bullets of the section of heading line n
BulletsAt(n) == Bullets(BodyAt(n))

RECURSIVE BulletsOfAll(_)
\* the bullets of the sections of a set of heading lines, in document order
BulletsOfAll(heads) ==
  IF heads = {} THEN << >>
  ELSE BulletsAt(Min(heads)) \o BulletsOfAll(heads \ {Min(heads)})

\* two or more sections, all under one heading that matches checkpoints
SameHeadingTwice ==
  Cardinality(CheckpointHeads) >= 2 /\ Cardinality(CheckpointHeadings) = 1

\* C4 (as stated): with two sections under the same matching heading, the
\* field holds the bullets of both, in document order.
C4_DuplicateHeadingsAccumulate ==
  (Returned /\ SameHeadingTwice) =>
    result.plan.checkpoints = BulletsOfAll(CheckpointHeads)

\* C4 (amended): with two sections under the same matching heading, the field
\* holds the bullets of the last of them only: the later section replaces the
\* earlier one (in rawSections and so in the field).
C4_DuplicateHeadingKeepsLast ==
  Returned =>
    LET rd == Reading
        heads == CheckpointHeadsIn(rd)
    IN  (Cardinality(heads) >= 2 /\ \A m, n \in heads : rd[m].heading = rd[n].heading)
          => result.plan.checkpoints = Bullets(rd[Max(heads)].body)

C4_Witness ==
  /\ Returned /\ SameHeadingTwice
  /\ BulletsAt(Min(CheckpointHeads)) # << >>
  /\ BulletsAt(Max(CheckpointHeads)) # << >>
  /\ BulletsAt(Min(CheckpointHeads)) # BulletsAt(Max(CheckpointHeads))

\* sections under two or more different headings that match checkpoints
DifferentHeadings == Cardinality(CheckpointHeadings) >= 2

\* C5 (as stated): when sections with different headings match one field, the
\* bullets of each of them appear in the field.
C5_EveryMatchingSectionContributes ==
  (Returned /\ DifferentHeadings) =>
    \A n \in CheckpointHeads : Range(BulletsAt(n)) \subseteq Range(result.plan.checkpoints)

\* the heading line whose section gives the field its final value: of the
\* matching headings the one that occurs first latest (the last matching key
\* of rawSections), and of that heading the last occurrence
DecidingHeadIn(rd, heads) == LastIn(rd, Max({FirstIn(rd, n) : n \in heads}))

DecidingHead == DecidingHeadIn(Reading, CheckpointHeads)

\* C5 (amended): the extraction is applied to every matching key of rawSections
\* in key order and each application assigns the field, so the field holds the
\* bullets of the last matching key only; what an earlier matching section
\* contributed is erased.
C5_LastMatchingKeyWins ==
  Returned =>
    LET rd == Reading
        heads == CheckpointHeadsIn(rd)
    IN  (\E m, n \in heads : rd[m].heading # rd[n].heading)
          => result.plan.checkpoints = Bullets(rd[DecidingHeadIn(rd, heads)].body)

C5_Witness ==
  /\ Returned /\ DifferentHeadings
  /\ \E n \in CheckpointHeads :
       /\ BulletsAt(n) # << >>
       /\ ~(Range(BulletsAt(n)) \subseteq Range(result.plan.checkpoints))
  /\ result.plan.checkpoints # << >>

-----------------------------------------------------------------------------
(* C6.  The daily plan: run headers and the bullets that follow them.      *)

\* the body of the only section of a one-section document
OnlyBody == BodyAt(Min(HeadIdx))

\* the bold run headers of the body, left to right, as <<start, end>> pairs
RunHeaders == AllMatches(OnlyBody, MRunHeader)

RunHeaderText(n) == SubSeq(OnlyBody, RunHeaders[n][1], RunHeaders[n][2] - 1)

\* the text between the n-th run header and the next one (or the end)
TextAfterRunHeader(n) ==
  SubSeq(OnlyBody, RunHeaders[n][2],
         IF n = Len(RunHeaders) THEN Len(OnlyBody) ELSE RunHeaders[n + 1][1] - 1)

\* C6: in a daily-plan section with n bold run headers, the i-th record of
\* dailyPlan has runs and phase from the i-th header and, as details, the
\* bullet lines between the i-th header and the next header (or the end of the
\* body), also when the body begins directly with the first run header or with
\* blank lines only before it.
C6_DetailsFollowTheirHeader ==
  (Returned /\ HeadIdx # {}) =>
    /\ Len(result.plan.dailyPlan) = Len(RunHeaders)
    /\ \A n \in 1..Len(RunHeaders) :
         result.plan.dailyPlan[n] =
           [runs |-> RunsOf(RunHeaderText(n)),
            phase |-> PhaseOf(RunHeaderText(n)),
            details |-> Bullets(TextAfterRunHeader(n))]

-----------------------------------------------------------------------------
(* C7.  The day numbers of the weekly schedule.                            *)

\* the non-blank blocks between the '### Day N' headers of the body
DayBlocks == Filter(SplitRe(OnlyBody, MDayHeader), NonBlank)

\* the positions, among blocks, of the blocks that have a name or a primary
\* focus
KeptAmong(blocks) ==
  {n \in 1..Len(blocks) :
     LET d == DayOfBlock(blocks[n], n - 1)
     IN  d.name # << >> \/ d.primaryFocus # << >>}

KeptDayBlocks == KeptAmong(DayBlocks)

DayNums == [n \in 1..Len(result.plan.weeklySchedule) |->
              result.plan.weeklySchedule[n].dayNum]

\* C7 (as stated): the dayNum values of the returned records are exactly
\* 1, 2, ..., n in order, whatever blocks were discarded.
C7_DayNumsAreOneToN ==
  (Returned /\ HeadIdx # {}) => \A n \in 1..Len(DayNums) : DayNums[n] = n

\* C7 (amended): the dayNum of a returned record is the 1-based position of
\* its block among the non-blank blocks between the day headers, counted
\* before the blocks without name and primary focus are discarded: the values
\* increase strictly, are exactly the positions of the blocks that are kept,
\* and are 1, 2, ..., n only when no block is discarded.
C7_DayNumIsBlockPosition ==
  (Returned /\ HeadIdx # {}) =>
    LET kept == KeptDayBlocks
    IN  /\ \A m, n \in 1..Len(DayNums) : m < n => DayNums[m] < DayNums[n]
        /\ Range(DayNums) = kept
        /\ (\A n \in 1..Len(DayNums) : DayNums[n] = n)
             <=> (kept = 1..Cardinality(kept))
        /\ \A d \in Range(result.plan.weeklySchedule) :
             d.name # << >> \/ d.primaryFocus # << >>

C7_Witness ==
  /\ Returned /\ HeadIdx # {}
  /\ Len(DayNums) >= 1
  /\ Len(DayNums) < Len(DayBlocks)
  /\ \E n \in 1..Len(DayNums) : DayNums[n] # n

-----------------------------------------------------------------------------
(* C8.  One heading that satisfies two predicates.                         *)

\* the priorities of a body: its non-blank blocks between the
\* '### Priority N' headers, those kept that have a name or a drill
PrioritiesOf(body) ==
  LET Kept(q) == q.name # << >> \/ q.drill # << >>
  IN  Filter(Map(Filter(SplitRe(body, MPriorityHeader), NonBlank),
                 PriorityOfBlock), Kept)

ExampleCombo ==
  Join(<< S("## Progress and Priorities"), S("### Priority 1"), S("- a"),
          S("Drill: X") >>, <<NL>>)

\* C8: a document with a single section whose heading satisfies the
\* checkpoints and the week-plan predicates populates both fields from the
\* same body text: checkpoints holds the bullets of the body and weekPlan its
\* priorities, and a body with a bullet leaves neither of them empty; the
\* other typed fields stay at their defaults.
C8_BothFieldsFromOneSection ==
  (Returned /\ HeadIdx # {}) =>
    LET body == OnlyBody
    IN  /\ result.plan.checkpoints = Bullets(body)
        /\ result.plan.weekPlan = PrioritiesOf(body)
        /\ result.plan.checkpoints # << >> => result.plan.weekPlan # << >>
        /\ TypedFields(result.plan) =
             [TypedFields(DefaultSections) EXCEPT
                !.checkpoints = result.plan.checkpoints,
                !.weekPlan = result.plan.weekPlan]
        /\ text = ExampleCombo =>
             /\ result.plan.checkpoints = << S("a") >>
             /\ result.plan.weekPlan =
                  << [name |-> S("- a"), current |-> << >>, target |-> << >>,
                      drill |-> S("X"), terrain |-> << >>,
                      details |-> << S("a"), S("Drill: X") >>] >>

C8_Witness ==
  /\ Returned
  /\ text = ExampleCombo
  /\ result.plan.checkpoints # << >>
  /\ result.plan.weekPlan # << >>

-----------------------------------------------------------------------------
(* C9, C10.  rawSections: its keys and its bodies.                         *)

RawSections == result.plan.rawSections

\* the headings under which a section can be stored
Storable(heading) == heading # << >> /\ heading # S("__proto__")

\* the typed fields of a document whose only matching headings match the
\* checkpoints predicate alone
OnlyCheckpointsIn(rd, heads) ==
  [TypedFields(DefaultSections) EXCEPT
     !.checkpoints = IF \E n \in heads : Storable(rd[n].heading)
                     THEN Bullets(rd[DecidingHeadIn(rd, heads)].body) ELSE << >>]

OnlyCheckpoints == OnlyCheckpointsIn(Reading, CheckpointHeads)

\* C9 (as stated): every '## ' section appears in rawSections under its
\* heading with its body verbatim (for a repeated heading the body of its
\* last occurrence), and an unmatched section changes no typed field.
C9_EverySectionVerbatim ==
  Returned =>
    /\ \A n \in HeadIdx :
         /\ HasKey(RawSections, HeadingAt(n))
         /\ ObjGet(RawSections, HeadingAt(n)) = BodyAt(LastOccurrence(n))
    /\ TypedFields(result.plan) = OnlyCheckpoints

\* C9 (amended): every '## ' section whose trimmed heading is neither empty
\* nor '__proto__' appears in rawSections under its trimmed heading, matched by
\* a predicate or not, and no other key exists; the keys are in the order of
\* the first occurrence of their heading; the value is the body of the last
\* occurrence of the heading, its lines other than '# ' title lines joined by
\* line breaks; a section with an empty heading or the heading '__proto__' is
\* lost; an unmatched section changes no typed field.
C9_StorableSectionsKept ==
  Returned =>
    LET rd == Reading
    IN  /\ \A n \in DOMAIN rd :
             IF Storable(rd[n].heading)
             THEN /\ HasKey(RawSections, rd[n].heading)
                  /\ ObjGet(RawSections, rd[n].heading) = rd[LastIn(rd, n)].plain
             ELSE ~HasKey(RawSections, rd[n].heading)
        /\ \A e \in Range(RawSections) : \E n \in DOMAIN rd : rd[n].heading = e.key
        /\ \A a, b \in 1..Len(RawSections) :
             a < b => \E n \in DOMAIN rd :
                        /\ rd[n].heading = RawSections[a].key
                        /\ \A m \in DOMAIN rd :
                             rd[m].heading = RawSections[b].key => n < m
        /\ TypedFields(result.plan) = OnlyCheckpointsIn(rd, CheckpointHeadsIn(rd))

C9_Witness ==
  /\ Returned
  /\ \E n \in HeadIdx :
       /\ HeadingAt(n) = S("Notes")
       /\ LastOccurrence(n) # n
       /\ BodyAt(n) # BodyAt(LastOccurrence(n))
       /\ ObjGet(RawSections, S("Notes")) = BodyAt(LastOccurrence(n))
       /\ BodyAt(LastOccurrence(n)) # << >>

\* the non-title lines before the first '## ' heading line
LinesBeforeFirstHeading ==
  Filter(SubSeq(DocLines, 1,
                IF HeadIdx = {} THEN Len(DocLines) ELSE Min(HeadIdx) - 1),
         NotTitleLine)

IsSubHeader(l) == StartsWith(l, S("### "))

\* C10 (as stated): the body of a section is exactly the sequence of lines
\* between its '## ' heading line and the next one (or the end of input),
\* joined with line breaks; a '### ' line starts no section and is kept in the
\* body; lines before the first heading reach no field other than title.
C10_BodyIsLinesBetweenHeadings ==
  Returned =>
    /\ \A e \in Range(RawSections) :
         \E n \in HeadIdx : HeadingAt(n) = e.key /\ e.value = BodyAt(LastOccurrence(n))
    /\ HeadIdx = {} => TypedFields(result.plan) = TypedFields(DefaultSections)

\* C10 (amended): the body of a section is the sequence of the lines between
\* its '## ' heading line and the next '## ' heading line (or the end of
\* input) that are not '# ' title lines, joined with line breaks: a title line
\* inside a section sets the title and is left out of the body; a '### ' line
\* starts no section and is kept verbatim in the body, as many times as it
\* occurs; lines before the first '## ' heading belong to no section and reach
\* no output field other than title (without any heading the result is the
\* defaults with the title).
C10_BodyIsNonTitleLinesBetweenHeadings ==
  Returned =>
    LET rd == Reading
    IN  /\ \A e \in Range(RawSections) :
             \E n \in DOMAIN rd :
               /\ rd[n].heading = e.key
               /\ e.value = rd[LastIn(rd, n)].plain
               /\ Filter(Split(e.value, <<NL>>), IsSubHeader) =
                    Filter(Split(rd[LastIn(rd, n)].body, <<NL>>), IsSubHeader)
        /\ Len(RawSections) <= Cardinality(DOMAIN rd)
        /\ DOMAIN rd = {} =>
             result.plan = [DefaultSections EXCEPT
                              !.title = IF TitleIdx = {} THEN << >>
                                        ELSE TitleAt(Max(TitleIdx))]
        /\ TypedFields(result.plan) = OnlyCheckpointsIn(rd, CheckpointHeadsIn(rd))

C10_Witness ==
  /\ Returned
  /\ LinesBeforeFirstHeading # << >>
  /\ \E e \in Range(RawSections) :
       /\ S("### Sub") \in Range(Split(e.value, <<NL>>))
       /\ \E n \in HeadIdx :
            /\ HeadingAt(n) = e.key
            /\ e.value # BodyAt(LastOccurrence(n))

-----------------------------------------------------------------------------
(* C11.  A document with a title and no section.                           *)

\* C11: a document with exactly one '# ' title line and no '## ' section
\* yields title set to that line's text (the line without its '# ' marker,
\* trimmed) and every other field of the result at its empty default: all
\* lists empty, the immediateFocus fields empty, both progression lists empty,
\* rawSections empty.
C11_TitleOnlyDocument ==
  (Returned /\ HeadIdx = {} /\ Cardinality(TitleIdx) = 1) =>
    /\ result.plan.title = TitleAt(Min(TitleIdx))
    /\ result.plan.title \in {S("T"), S("U")}
    /\ [result.plan EXCEPT !.title = << >>] = DefaultSections
    /\ result.plan.rawSections = << >>

C11_Witness ==
  /\ Returned /\ HeadIdx = {} /\ Cardinality(TitleIdx) = 1
  /\ Len(DocLines) >= 3
  /\ Min(TitleIdx) = 2
  /\ result.plan.title = S("T")

-----------------------------------------------------------------------------
(* C12.  A single checkpoints section.                                     *)

OnlyHeading == HeadingAt(Min(HeadIdx))

OnlyBodyLines == BodyLinesAt(Min(HeadIdx))

\* a '-'-prefixed line, and what is left of it without the dash and the white
\* space around the rest
StartsWithDash(l) == l # << >> /\ l[1] = "-"

AfterDash(l) == Trim(From(l, 2))

\* a line that is a bullet only after trimming: white space, then a dash
IsIndentedBullet(l) == StartsWith(Trim(l), <<"-">>) /\ ~StartsWithDash(l)

\* C12: a document whose only section is '## Checkpoints' with three
\* '-'-prefixed lines (and no indented bullet) yields checkpoints equal to
\* those three lines in order, the dash and the white space around the rest
\* stripped, and every other typed field empty.
C12_ThreeCheckpoints ==
  (Returned /\ HeadIdx # {}) =>
    LET ls == OnlyBodyLines
        dashed == Filter(ls, StartsWithDash)
    IN  (/\ OnlyHeading = S("Checkpoints")
         /\ Len(dashed) = 3
         /\ \A l \in Range(ls) : ~IsIndentedBullet(l))
        => /\ result.plan.checkpoints = Map(dashed, AfterDash)
           /\ \A e \in Range(result.plan.checkpoints) : e \in {S("a"), S("b")}
           /\ TypedFields(result.plan) =
                [TypedFields(DefaultSections) EXCEPT
                   !.checkpoints = result.plan.checkpoints]

C12_Witness ==
  /\ Returned
  /\ OnlyHeading = S("Checkpoints")
  /\ OnlyBodyLines = << S("- a"), S("text"), S("-b "), S("- a") >>
  /\ result.plan.checkpoints = << S("a"), S("b"), S("a") >>

-----------------------------------------------------------------------------
(* C13, C14.  The priorities of the week plan.                             *)

\* the '### Priority N' header lines among the lines ls
PriorityHeadLines(ls) == {n \in 1..Len(ls) : StartsWith(ls[n], S("### Priority"))}

IsDrillLine(l) == StartsWith(l, S("Drill:"))

\* a section body that consists of two priority blocks, each with one
\* 'Drill:' line and the current/target line
TwoPriorityBlocks(ls, heads) ==
  /\ Cardinality(heads) = 2
  /\ \A m \in 1..(Min(heads) - 1) : Trim(ls[m]) = << >>
  /\ \A n \in heads :
       /\ Len(Filter(BodyLinesOf(ls, heads, n), IsDrillLine)) = 1
       /\ CurrentLine \in Range(BodyLinesOf(ls, heads, n))
       /\ \A l \in Range(BodyLinesOf(ls, heads, n)) :
            Includes(ToLowerCase(l), S("drill")) => IsDrillLine(l)

\* the value of the 'Drill:' line of the block of header line n
DrillValueAt(ls, heads, n) ==
  Trim(From(Filter(BodyLinesOf(ls, heads, n), IsDrillLine)[1], 7))

LabelledLines(block, word) ==
  LET Has(l) ==
        /\ Includes(l, <<":">>)
        /\ Includes(ToLowerCase(SubSeq(l, 1, IndexOf(l, <<":">>) - 1)), word)
  IN  Filter(block, Has)

\* the whole remainder of a line after its first colon, bold markers removed
RemainderAfterFirstColon(l) == Trim(StripStars(From(l, IndexOf(l, <<":">>) + 1)))

\* C14: in a priority block, a line containing ':' is split at its first colon
\* only: the value assigned to drill (or terrain) is the whole remainder of the
\* line after the first colon, bold markers removed, also when that remainder
\* itself contains further colons.
C14_ValueIsWholeRemainder ==
  (Returned /\ HeadIdx # {}) =>
    LET ls == OnlyBodyLines
        heads == PriorityHeadLines(ls)
        wp == result.plan.weekPlan
        block == BodyLinesOf(ls, heads, 1)
        drills == LabelledLines(block, S("drill"))
        terrains == LabelledLines(block, S("terrain"))
    IN  (heads = {1} /\ Len(wp) = 1) =>
          /\ drills # << >> =>
               Trim(wp[1].drill) = RemainderAfterFirstColon(drills[Len(drills)])
          /\ terrains # << >> =>
               Trim(wp[1].terrain) = RemainderAfterFirstColon(terrains[Len(terrains)])

-----------------------------------------------------------------------------
(* C15, C16.  The drills.                                                  *)

\* the '### Drill N' header lines among the lines ls
DrillHeadLines(ls) == {n \in 1..Len(ls) : StartsWith(ls[n], S("### Drill "))}

\* the non-blank lines of the block of header line n: what follows the header
\* on its own line, then the lines up to the next header
DrillBlockAt(ls, heads, n) ==
  Filter(<<From(ls[n], 12)>> \o BodyLinesOf(ls, heads, n), NonBlank)

\* a first line of nothing but punctuation that the name drops
IsRule(l) == \A c \in Range(l) : c \in {"-", ":", " ", "*"}

HasName(block) == block # << >> /\ ~IsRule(block[1])

\* the value of the last line of the block whose label contains word, '' when
\* there is none
LastLabelled(block, word) ==
  LET ll == LabelledLines(block, word)
  IN  IF ll = << >> THEN << >> ELSE RemainderAfterFirstColon(ll[Len(ll)])

\* a block that ends with a name or an execution
IsKeptDrill(block) == HasName(block) \/ LastLabelled(block, S("execution")) # << >>

SortedSeq(A) ==
  [r \in 1..Cardinality(A) |-> CHOOSE n \in A : Cardinality({m \in A : m <= n}) = r]

\* the blocks of a drills body: the non-blank lines before the first header,
\* then the block of every header
DrillBlocksOf(ls, heads) ==
  LET hs == SortedSeq(heads)
      first == IF heads = {} THEN Len(ls) + 1 ELSE Min(heads)
  IN  <<Filter(SubSeq(ls, 1, first - 1), NonBlank)>>
        \o [r \in 1..Len(hs) |-> DrillBlockAt(ls, heads, hs[r])]

\* C16: within one drill block, when a label occurs on several lines (e.g. two
\* 'Terrain:' lines), the field holds the value of the last such line; and a
\* drill block that ends with neither name nor execution populated is absent
\* from drills: the records are those of the blocks that have a name or an
\* execution, in order.
C16_LastLabelWins ==
  (Returned /\ HeadIdx # {}) =>
    LET ls == OnlyBodyLines
        kept == Filter(DrillBlocksOf(ls, DrillHeadLines(ls)), IsKeptDrill)
        dr == result.plan.drills
    IN  /\ Len(dr) = Len(kept)
        /\ \A r \in 1..Len(dr) :
             /\ dr[r].terrain = LastLabelled(kept[r], S("terrain"))
             /\ dr[r].execution = LastLabelled(kept[r], S("execution"))
             /\ dr[r].name # << >> \/ dr[r].execution # << >>

C16_Witness ==
  /\ Returned
  /\ OnlyBodyLines = << S("---"), S("### Drill 1"), S("Terrain: a"), S("Terrain: b: c") >>
  /\ Len(result.plan.drills) = 1
  /\ result.plan.drills[1].terrain = S("b: c")

-----------------------------------------------------------------------------
(* C17.  The list-of-bullets fields.                                       *)

\* the list-of-bullets field that a heading of BulletHeadings feeds
BulletFieldOf(heading) ==
  CASE heading = S("The Big Picture") -> "bigPicture"
    [] heading = S("Building on Strengths") -> "strengths"
    [] heading = S("Checkpoints") -> "checkpoints"
    [] heading = S("Mental Cues") -> "mentalCues"
    [] heading = S("Traps to Avoid") -> "traps"

\* a line whose trimmed content starts with '-'
IsBulletLine(l) == StartsWith(Trim(l), <<"-">>)

\* the line without the leading dash, the white space after it and all
\* surrounding white space
CleanBullet(l) == Trim(From(Trim(l), 2))

\* C17: for the list-of-bullets fields (bigPicture, strengths, checkpoints,
\* mentalCues, traps), the result holds one entry per body line whose trimmed
\* content starts with '-', in order, and each entry is that line with the
\* leading dash, the white space after it and all surrounding white space
\* removed, so that an indented bullet ('  - text') yields 'text'.
C17_BulletsAreCleaned ==
  (Returned /\ HeadIdx # {}) =>
    result.plan[BulletFieldOf(OnlyHeading)] =
      Map(Filter(OnlyBodyLines, IsBulletLine), CleanBullet)

-----------------------------------------------------------------------------
(* C18.  The immediate focus.                                              *)

\* a line that contains 'mental cue' in any letter case, or the literal 'Cue:'
QualifiesAsCue(l) ==
  Includes(ToLowerCase(l), S("mental cue")) \/ Includes(l, S("Cue:"))

\* a stripped line that is kept in details
IsShownDetail(l) == l # << >> /\ l[1] # "#"

\* C18: in an immediate-focus section, a non-blank line sets
\* immediateFocus.cue when it contains the phrase 'mental cue' in any letter
\* case or the literal 'Cue:'; when several lines qualify, cue is the one
\* extracted from the last of them; every non-blank line that is non-empty
\* after stripping and does not begin with '#' also appears in details.
C18_CueInAnyLetterCase ==
  (Returned /\ HeadIdx # {}) =>
    LET nb == Filter(OnlyBodyLines, NonBlank)
        cues == Filter(nb, QualifiesAsCue)
    IN  /\ result.plan.immediateFocus.cue =
             IF cues = << >> THEN << >> ELSE CueText(cues[Len(cues)])
        /\ result.plan.immediateFocus.details =
             Filter(Map(nb, DetailText), IsShownDetail)

-----------------------------------------------------------------------------
(* C19.  Parsing again what was stored.                                    *)

\* each entry written back as '## <heading>' followed by its body
Rebuilt(raw) ==
  Join([n \in 1..Len(raw) |-> S("## ") \o raw[n].key \o <<NL>> \o raw[n].value],
       <<NL>>)

\* C19 (as stated): the parse of the document rebuilt from the result's
\* rawSections is a plan with the same typed fields as the original result.
C19_ReparseGivesSameFields ==
  Returned =>
    LET again == ParseTrainingPlan(Rebuilt(RawSections))
    IN  again.kind = "plan" /\ TypedFields(again.plan) = TypedFields(result.plan)

\* C19 (amended): when the result has at least one rawSections entry, the
\* parse of the document rebuilt from them is a plan with the same rawSections
\* and the same typed fields; and the result of a call is the function of its
\* text alone, whatever ran before.
C19_ReparseOfStoredSections ==
  Returned =>
    /\ ParseTrainingPlan(text) = result
    /\ RawSections # << >> =>
         LET again == ParseTrainingPlan(Rebuilt(RawSections))
         IN  /\ again.kind = "plan"
             /\ again.plan.rawSections = RawSections
             /\ TypedFields(again.plan) = TypedFields(result.plan)

\* two stored sections, both with bullets, one under a heading that the
\* rebuilt document writes differently
C19_Witness ==
  /\ Returned
  /\ Len(RawSections) = 2
  /\ result.plan.checkpoints # << >>
  /\ result.plan.mentalCues # << >>
  /\ Rebuilt(RawSections) # text

-----------------------------------------------------------------------------
(* C20.  The ids of the progress log.                                      *)

\* C20: after any sequence of saveToProgressLog and deleteProgressLog, the
\* entries of progressLogs have pairwise distinct ids, also when two saves
\* read the same clock value.
C20_DistinctIds ==
  \A m, n \in 1..Len(progressLogs) :
    m # n => progressLogs[m].id # progressLogs[n].id

-----------------------------------------------------------------------------
(* C22.  The colour bands of a score.                                      *)

\* C22: getScoreColor gives every integer score exactly one class: 70 and
\* above 'score-good', 50 to 69 'score-medium', below 50 'score-poor'; null
\* and undefined give 'score-unknown'.
C22_ScoreBands ==
  scoreColor # "" =>
    /\ scoreColor \in {"score-good", "score-medium", "score-poor", "score-unknown"}
    /\ scoreColor = "score-unknown" <=> score \in {NullScore, UndefinedScore}
    /\ score.kind = "number" =>
         /\ scoreColor = "score-good" <=> score.value >= 70
         /\ scoreColor = "score-medium" <=> (50 <= score.value /\ score.value <= 69)
         /\ scoreColor = "score-poor" <=> score.value < 50

\* the call made at the lower edge of the green band
C22_Witness == score = Number(70) /\ scoreColor = "score-good"

-----------------------------------------------------------------------------
(* C23.  The files that are selected.                                      *)

\* PNG, JPEG or WEBP, by MIME type
IsImageType(file) ==
  file.type \in {S("image/png"), S("image/jpeg"), S("image/jpg"), S("image/webp")}

\* the files of the selection
SelectedFileSet == {selectedFiles[n].file : n \in 1..Len(selectedFiles)}

\* the files of the latest batch that are of another type or above 5MB, and
\* the others, in the order of the batch
IsAccepted(file) == IsImageType(file) /\ file.size <= FiveMB

IsRefused(file) == ~IsAccepted(file)

\* the files of a sequence of readers
FileOfReader(rd) == rd.file

-----------------------------------------------------------------------------
(* C21.  The timestamp of a saved entry.                                   *)

\* the last entry of the log
LastLog(logs) == logs[Len(logs)]

\* the analysis on screen carries a session datetime
CarriesDatetime(a) ==
  a # NoAnalysis /\ a.session_datetime.kind = "string" /\ a.session_datetime.value # << >>

\* C21: the entry a save appends takes its datetime from the analysis'
\* session_datetime when there is one (source 'carv_screenshot'), otherwise
\* from the sessionDateTime field when it is non-empty ('exif_or_filename'),
\* otherwise from the clock ('current_time'); whatever the field holds, it is
\* not used while the analysis carries a session_datetime.
C21_TimestampPrecedence ==
  [][ Len(progressLogs') = Len(progressLogs) + 1 =>
        LET entry == LastLog(progressLogs')
        IN  IF CarriesDatetime(analysis)
            THEN /\ entry.datetime = analysis.session_datetime.value
                 /\ entry.datetimeSource = "carv_screenshot"
            ELSE IF sessionDateTime # << >>
            THEN /\ entry.datetime = sessionDateTime
                 /\ entry.datetimeSource = "exif_or_filename"
            ELSE /\ entry.datetime = IsoOf(now)
                 /\ entry.datetimeSource = "current_time"
    ]_vars

\* the three sources met in one log, the first entry saved from an analysis
\* with a session datetime after the user typed another date in the field
C21_Witness ==
  /\ Len(progressLogs) = 2
  /\ progressLogs[1].datetimeSource = "carv_screenshot"
  /\ progressLogs[1].datetime = S("2025-01-05T10:30:00")
  /\ sessionDateTime = S("2025-02-01T12:00")
  /\ progressLogs[2].datetimeSource = "carv_screenshot"

\* entries saved from the field and from the clock
C21_OtherSources ==
  /\ Len(progressLogs) = 2
  /\ progressLogs[1].datetimeSource = "exif_or_filename"
  /\ progressLogs[2].datetimeSource = "current_time"

-----------------------------------------------------------------------------
(* C24.  The busy flags.                                                   *)

IsAnalyzeRequest(rq) == rq.kind = "analyze"

\* number of analyze requests in a sequence of requests
AnalyzeCount(rqs) == Len(Filter(rqs, IsAnalyzeRequest))

\* C24: provided every HTTP call settles, loading, once true, is eventually
\* false again, and so is planLoading; and while loading is true no analyze
\* request is started.
C24_BusyFlagsClear ==
  /\ loading ~> ~loading
  /\ planLoading ~> ~planLoading
  /\ [][loading => AnalyzeCount(requests') <= AnalyzeCount(requests)]_vars

\* an analysis that succeeded and a plan request that failed, both flags
\* cleared
C24_Witness ==
  /\ analysis # NoAnalysis
  /\ trainingPlan = NoPlan
  /\ error # NoError
  /\ ~loading
  /\ ~planLoading
  /\ requests = << >>

-----------------------------------------------------------------------------
(* C25.  The errors of analyzeAllScreenshots.                              *)

\* the step of an analyze call that fails
AnalyzeFails ==
  \E n \in 1..Len(requests), outcome \in Failures : AnalyzeSettles(n, outcome)

\* C25: an analyzeAllScreenshots call with nothing selected sets error to
\* 'Please select at least one screenshot', sends no request and leaves
\* loading, analysis and trainingPlan as they are; an analyze request that
\* fails ends in a state where error is non-null, loading is false and
\* analysis and trainingPlan are both null.
C25_AnalyzeErrors ==
  [][ /\ (Len(selectedFiles) = 0 /\ analyzeAllScreenshots) =>
           /\ error' = ErrorOf(S("Please select at least one screenshot"))
           /\ requests' = requests
           /\ UNCHANGED <<loading, analysis, trainingPlan>>
      /\ AnalyzeFails =>
           /\ error' # NoError
           /\ loading' = FALSE
           /\ analysis' = NoAnalysis
           /\ trainingPlan' = NoPlan
    ]_vars

-----------------------------------------------------------------------------
(* C26.  The errors of generateTrainingPlan.                               *)

\* the step of a generate-plan call that fails
PlanFails ==
  \E n \in 1..Len(requests), outcome \in Failures : PlanSettles(n, outcome)

\* C26: a generateTrainingPlan call with analysis = null sets error to
\* 'Please analyze screenshots first' and sends no request; neither the call
\* nor the failure of its request changes trainingPlan or analysis, and the
\* failure sets error.
C26_PlanErrors ==
  [][ /\ (analysis = NoAnalysis /\ generateTrainingPlan) =>
           /\ error' = ErrorOf(S("Please analyze screenshots first"))
           /\ requests' = requests
           /\ UNCHANGED planLoading
      /\ generateTrainingPlan => UNCHANGED <<trainingPlan, analysis>>
      /\ PlanFails =>
           /\ error' # NoError
           /\ UNCHANGED <<trainingPlan, analysis>>
    ]_vars

\* a plan request has failed with the plan of an earlier request on screen
C26_Witness ==
  /\ error = ErrorOf(S("Failed to generate training plan"))
  /\ trainingPlan # NoPlan
  /\ analysis # NoAnalysis
  /\ ~planLoading

-----------------------------------------------------------------------------
(* C27.  The log and its copy in localStorage.                             *)

\* C27: after mount and after every completed save or delete, the logs
\* persisted under STORAGE_KEY equal progressLogs, an absent key counting as
\* the empty list, also after two deletes issued from one rendered list.
C27_StorageMirrorsLogs == PersistedLogs = progressLogs

-----------------------------------------------------------------------------
(* C28.  What a save and a delete change in the log.                       *)

\* the places of `logs` whose entry does not have the id
PlacesKept(logs, logId) == {n \in 1..Len(logs) : logs[n].id # logId}

\* `after` is `before` without the entries that have the id, the others in
\* their order
RemovesExactly(before, after, logId) ==
  /\ Len(after) = Cardinality(PlacesKept(before, logId))
  /\ \A n \in 1..Len(after) : after[n].id # logId
  /\ \E place \in [1..Len(after) -> 1..Len(before)] :
       /\ \A n \in 1..Len(after) : after[n] = before[place[n]]
       /\ \A m, n \in 1..Len(after) : m < n => place[m] < place[n]
       /\ {place[n] : n \in 1..Len(after)} = PlacesKept(before, logId)

\* C28: a save with no analysis changes nothing; a save with one appends
\* exactly one entry, with that analysis and at most 3 previews, and leaves
\* the entries before it as they were; deleteProgressLog(id) removes exactly
\* the entries with that id, keeps the others in their order and resets the
\* comparison when it was on a deleted entry; a log selected for comparison
\* is always an entry of progressLogs.
C28_SaveAndDeleteFrame ==
  /\ [](selectedLogForComparison # NoLog =>
          \E n \in 1..Len(progressLogs) :
            progressLogs[n] = selectedLogForComparison.log)
  /\ [][ /\ (analysis = NoAnalysis /\ saveToProgressLog) => UNCHANGED vars
         /\ (analysis # NoAnalysis /\ saveToProgressLog) =>
              /\ Len(progressLogs') = Len(progressLogs) + 1
              /\ SubSeq(progressLogs', 1, Len(progressLogs)) = progressLogs
              /\ LastLog(progressLogs').analysis = analysis
              /\ LastLog(progressLogs').analysis # NoAnalysis
              /\ Len(LastLog(progressLogs').screenshotPreviews) <= 3
         /\ \A n \in 1..Len(progressLogs) :
              deleteProgressLog(progressLogs[n].id) =>
                /\ RemovesExactly(progressLogs, progressLogs', progressLogs[n].id)
                /\ selectedLogForComparison' =
                     IF /\ selectedLogForComparison # NoLog
                        /\ selectedLogForComparison.log.id = progressLogs[n].id
                     THEN NoLog ELSE selectedLogForComparison
       ]_vars

\* an entry saved from four screenshots, chosen for comparison, is left
\* alone in the log after the delete of the other one
C28_Witness ==
  /\ Len(progressLogs) = 1
  /\ selectedLogForComparison # NoLog
  /\ selectedLogForComparison.log = progressLogs[1]
  /\ Len(progressLogs[1].screenshotPreviews) = 3

-----------------------------------------------------------------------------
(* C29.  The plan on screen and the analysis on screen.                    *)

\* the plan was saved in the log together with the analysis
SavedTogether(a, plan) ==
  \E n \in 1..Len(progressLogs) :
    progressLogs[n].analysis = a /\ progressLogs[n].trainingPlan = plan

\* C29: whenever trainingPlan is non-null, analysis is non-null and
\* trainingPlan is the plan generated from that analysis or saved together
\* with it, whatever runs while a generate-plan request is in flight.
C29_PlanOfCurrentAnalysis ==
  trainingPlan # NoPlan =>
    /\ analysis # NoAnalysis
    /\ trainingPlan = PlanFor(analysis) \/ SavedTogether(analysis, trainingPlan)

-----------------------------------------------------------------------------
(* C30.  The page after Clear All.                                         *)

\* the page as clearAll leaves it
Cleared ==
  /\ selectedFiles = << >>
  /\ analysis = NoAnalysis
  /\ trainingPlan = NoPlan
  /\ error = NoError

\* C30: clearAll leaves selectedFiles empty and analysis, trainingPlan and
\* error null, and as long as the user starts nothing new they stay so: no
\* response of a request in flight and no preview still being read puts
\* anything back.
C30_StaysCleared ==
  /\ [][clearAll => Cleared']_vars
  /\ [][Cleared => Cleared']_vars

====
